---- MODULE Spec2Model ----
(***************************************************************************)
(* req_checker: the Aspect Parser (get_aspects, main.py), the fan-out crew *)
(* construction (ReqChecker.req_details_crew, crew.py) and the Document QA *)
(* loop (get_answers_for_structure, st_app.py).                            *)
(*                                                                         *)
(* A text is a sequence of characters, each a one-character string; a      *)
(* string of more than one character inside a text stands for a run of     *)
(* ordinary letters (a word) and is never split.  Python values are tagged *)
(* records [t |-> type, v |-> payload]; a dict is the sequence of its      *)
(* <<key, value>> pairs in insertion order.                                *)
(***************************************************************************)
EXTENDS Integers, Sequences, FiniteSets, TLC

VARIABLES
    \* one call of get_aspects followed by req_details_crew (main.py run)
    raw,            \* the text handed to get_aspects
    original,       \* the checklist raw was rendered from, or NoChecklist
    pc,             \* "start", "parsed", "raised", "crew_built", "crew_raised"
    aspects,        \* what get_aspects returned
    exc,            \* the exception that left the last call, or "none"
    log,            \* the lines printed by get_aspects
    evaluated,      \* the calls executed while the text was parsed
    crew,           \* the Crew built by req_details_crew
    \* one call of get_answers_for_structure (st_app.py)
    qa_chain,               \* TRUE when the RAG pipeline was built
    questions_data,         \* the checklist argument
    qpc,                    \* "idle", "loop", "done"
    ai,                     \* index of the aspect being processed
    qi,                     \* index of the next question of that aspect
    processed_questions,    \* QAPairs of the aspect being processed
    results_by_aspect,      \* AspectResults appended so far
    questions_processed_count,
    progress,               \* the fractions reported, as <<count, total>>
    calls,                  \* the backend's outcome for every question asked
    \* one call of format_results_to_markdown (st_app.py)
    results_data,           \* the AspectResults argument
    markdown_output,        \* the text returned
    fpc,                    \* "idle", "start", "formatted"
    \* one call of run (main.py); it shares raw, pc, aspects, exc, log, crew
    trace,                  \* the stages entered so far, in order
    ti,                     \* index of the next task of the crew to execute
    outputs,                \* the outputs of the tasks executed so far
    started,                \* the tasks started so far, each with its context
    \* the session and one pass of the document analysis handler (st_app.py)
    current_questions_structure,    \* st.session_state.current_questions_structure
    uploaded_questions_file,        \* the file held by the checklist uploader
    current_questions_json,         \* the text offered by the download button
    exported,               \* the checklist that text was written from
    downloaded,             \* the file the user saved with the download button
    kept,                   \* TRUE when the last script run left the checklist as it was
    event,                  \* what the user did to start the last script run
    sidebar,                \* the sidebar messages of the last script run
    dpc,                    \* "idle", "uploaded", "indexing", "embedding",
                            \* "indexed", "answering", "stopped", "end"
    document,               \* the uploaded document
    file_bytes,             \* "none", "undecodable" or "utf8"
    docs,                   \* "none" or "chunks": what the splitters gave
    backend_calls,          \* the calls made to the embedding backend
    ui                      \* the messages shown, as <<level, what>>

parseVars == <<raw, original, pc, aspects, exc, log, evaluated, crew>>
qaVars == <<qa_chain, questions_data, qpc, ai, qi, processed_questions,
            results_by_aspect, questions_processed_count, progress, calls>>
fmtVars == <<results_data, markdown_output, fpc>>
runVars == <<trace, ti, outputs, started>>
sessionVars == <<current_questions_structure, uploaded_questions_file,
                 current_questions_json, exported, downloaded, kept,
                 event, sidebar>>
docVars == <<dpc, document, file_bytes, docs, backend_calls, ui>>
otherVars == <<fmtVars, runVars, sessionVars, docVars>>
vars == <<parseVars, qaVars, otherVars>>

----------------------------------------------------------------------------
(* Characters *)

SQ == "'"
DQ == "\""
BS == "\\"
NL == "\n"
Whitespace == {" ", NL}
Digits == {"0", "1", "2", "3", "4", "5", "6", "7", "8", "9"}
Quotes == {SQ, DQ}
Openers == {"[", "(", "{"}
Closers == {"]", ")", "}"}
Punct == Openers \cup Closers \cup {":", ",", "."}
IsWord(c) == c \notin (Whitespace \cup Digits \cup Quotes \cup Punct \cup {BS})

DigitVal(c) ==
    CASE c = "0" -> 0 [] c = "1" -> 1 [] c = "2" -> 2 [] c = "3" -> 3
      [] c = "4" -> 4 [] c = "5" -> 5 [] c = "6" -> 6 [] c = "7" -> 7
      [] c = "8" -> 8 [] c = "9" -> 9

DigitChar(d) ==
    CASE d = 0 -> "0" [] d = 1 -> "1" [] d = 2 -> "2" [] d = 3 -> "3"
      [] d = 4 -> "4" [] d = 5 -> "5" [] d = 6 -> "6" [] d = 7 -> "7"
      [] d = 8 -> "8" [] d = 9 -> "9"

\* str.strip(): whitespace removed at both ends
RECURSIVE LStrip(_)
LStrip(s) ==
    IF s # <<>> /\ Head(s) \in Whitespace THEN LStrip(Tail(s)) ELSE s

RECURSIVE RStrip(_)
RStrip(s) ==
    IF s # <<>> /\ s[Len(s)] \in Whitespace
    THEN RStrip(SubSeq(s, 1, Len(s) - 1))
    ELSE s

Strip(s) == RStrip(LStrip(s))

----------------------------------------------------------------------------
(* Python values *)

PyStr(s) == [t |-> "str", v |-> s]
PyInt(n) == [t |-> "int", v |-> n]
PyNone == [t |-> "none", v |-> <<>>]
PyList(xs) == [t |-> "list", v |-> xs]
PyTuple(xs) == [t |-> "tuple", v |-> xs]
PySet(xs) == [t |-> "set", v |-> xs]
PyDict(kvs) == [t |-> "dict", v |-> kvs]

\* x == y, type by type; dicts and sets are compared in insertion order
RECURSIVE PyEq(_, _)
PyEq(x, y) ==
    /\ x.t = y.t
    /\ CASE x.t \in {"str", "int", "none"} -> x.v = y.v
         [] x.t \in {"list", "tuple", "set"} ->
                /\ Len(x.v) = Len(y.v)
                /\ \A j \in 1..Len(x.v) : PyEq(x.v[j], y.v[j])
         [] x.t = "dict" ->
                /\ Len(x.v) = Len(y.v)
                /\ \A j \in 1..Len(x.v) :
                      PyEq(x.v[j][1], y.v[j][1]) /\ PyEq(x.v[j][2], y.v[j][2])

KeyAspect == PyStr(<<"aspect">>)
KeyQuestions == PyStr(<<"questions">>)

HasKey(d, k) == \E j \in 1..Len(d.v) : PyEq(d.v[j][1], k)
GetItem(d, k) == d.v[CHOOSE j \in 1..Len(d.v) : PyEq(d.v[j][1], k)][2]

\* d[k] = x: an existing key keeps its place, a new key goes last
SetItem(kvs, k, x) ==
    IF \E j \in 1..Len(kvs) : PyEq(kvs[j][1], k)
    THEN [j \in 1..Len(kvs) |-> IF PyEq(kvs[j][1], k) THEN <<kvs[j][1], x>> ELSE kvs[j]]
    ELSE Append(kvs, <<k, x>>)

AspectRecord(a, qs) ==
    PyDict(<<<<KeyAspect, PyStr(a)>>,
             <<KeyQuestions, PyList([j \in 1..Len(qs) |-> PyStr(qs[j])])>>>>)

\* hash(x) succeeds
RECURSIVE Hashable(_)
Hashable(x) ==
    CASE x.t \in {"str", "int", "none"} -> TRUE
      [] x.t = "tuple" -> \A j \in 1..Len(x.v) : Hashable(x.v[j])
      [] OTHER -> FALSE

----------------------------------------------------------------------------
(* ast.literal_eval, step 1: the tokenizer.                                 *)
(* Modelled: string literals in single or double quotes with the escapes   *)
(* \\ \' \" \n and backslash-newline, decimal integers, identifiers, the    *)
(* brackets, comma, colon and dot; a newline is white space inside         *)
(* brackets and ends the expression outside them.  Not modelled, and       *)
(* absent from the texts below: triple quotes, string prefixes, floats,    *)
(* operators, keywords other than None, escapes other than the four named. *)

Tok(k, v) == [k |-> k, v |-> v]
LexFail == [ok |-> FALSE, toks |-> <<>>]

\* the body of a string literal opened by quote q, from position i
RECURSIVE LexString(_, _, _, _)
LexString(s, i, q, acc) ==
    IF i > Len(s) THEN [ok |-> FALSE, v |-> acc, next |-> i]
    ELSE LET c == s[i] IN
        IF c = q THEN [ok |-> TRUE, v |-> acc, next |-> i + 1]
        ELSE IF c = NL THEN [ok |-> FALSE, v |-> acc, next |-> i]
        ELSE IF c = BS THEN
            IF i + 1 > Len(s) THEN [ok |-> FALSE, v |-> acc, next |-> i]
            ELSE LET d == s[i + 1] IN
                LexString(s, i + 2, q,
                    CASE d \in {BS, SQ, DQ} -> Append(acc, d)
                      [] d = "n" -> Append(acc, NL)
                      [] d = NL -> acc
                      [] OTHER -> acc \o <<BS, d>>)
        ELSE LexString(s, i + 1, q, Append(acc, c))

RECURSIVE LexNumber(_, _, _)
LexNumber(s, i, n) ==
    IF i <= Len(s) /\ s[i] \in Digits
    THEN LexNumber(s, i + 1, 10 * n + DigitVal(s[i]))
    ELSE [v |-> n, next |-> i]

RECURSIVE LexName(_, _, _)
LexName(s, i, acc) ==
    IF i <= Len(s) /\ (IsWord(s[i]) \/ s[i] \in Digits)
    THEN LexName(s, i + 1, Append(acc, s[i]))
    ELSE [v |-> acc, next |-> i]

RECURSIVE Lex(_, _, _, _)
Lex(s, i, depth, acc) ==
    IF i > Len(s) THEN [ok |-> TRUE, toks |-> acc]
    ELSE LET c == s[i] IN
        CASE c = " " -> Lex(s, i + 1, depth, acc)
          [] c = NL ->
                IF depth > 0 THEN Lex(s, i + 1, depth, acc)
                ELSE Lex(s, i + 1, depth, Append(acc, Tok("op", "NEWLINE")))
          [] c \in Quotes ->
                LET r == LexString(s, i + 1, c, <<>>) IN
                IF r.ok THEN Lex(s, r.next, depth, Append(acc, Tok("str", r.v)))
                ELSE LexFail
          [] c \in Digits ->
                LET r == LexNumber(s, i, 0) IN
                IF r.next <= Len(s) /\ IsWord(s[r.next]) THEN LexFail
                ELSE IF c = "0" /\ r.v # 0 THEN LexFail
                ELSE Lex(s, r.next, depth, Append(acc, Tok("num", r.v)))
          [] c \in Openers -> Lex(s, i + 1, depth + 1, Append(acc, Tok("op", c)))
          [] c \in Closers ->
                IF depth = 0 THEN LexFail
                ELSE Lex(s, i + 1, depth - 1, Append(acc, Tok("op", c)))
          [] c \in {":", ",", "."} -> Lex(s, i + 1, depth, Append(acc, Tok("op", c)))
          [] c = BS ->
                IF i + 1 <= Len(s) /\ s[i + 1] = NL
                THEN Lex(s, i + 2, depth, acc)
                ELSE LexFail
          [] OTHER ->
                LET r == LexName(s, i, <<>>) IN
                Lex(s, r.next, depth, Append(acc, Tok("name", r.v)))

Tokenize(s) == Lex(s, 1, 0, <<>>)

----------------------------------------------------------------------------
(* ast.literal_eval, step 2: the parser (Python's expression grammar for    *)
(* the tokens above), one token at a time.  The state holds a stack of the  *)
(* open brackets, each with the elements read so far, and the expression    *)
(* being read (cur, when have); lit tells that cur is a bare string         *)
(* literal, dot that an attribute name must follow.                         *)

Node(n, v, w) == [n |-> n, v |-> v, w |-> w]
NoNode == Node("None", <<>>, <<>>)
ParseFail == [ok |-> FALSE, node |-> NoNode]
Parsed(node) == [ok |-> TRUE, node |-> node]

\* kind: "top", "list", "paren", "brace", "call", "sub"; a brace is a dict
\* (mode "dict", keys and elts in step, key the key awaiting its value) or a
\* set (mode "set"), undecided (mode "none") until ':' or ',' is read
Frame(kind, base) ==
    [kind |-> kind, base |-> base, elts |-> <<>>, keys |-> <<>>,
     mode |-> "none", key |-> NoNode, hasKey |-> FALSE]

PState(stack, cur, have, lit, dot) ==
    [ok |-> TRUE, stack |-> stack, cur |-> cur, have |-> have, lit |-> lit,
     dot |-> dot]
PFail == [ok |-> FALSE, stack |-> <<>>, cur |-> NoNode, have |-> FALSE,
          lit |-> FALSE, dot |-> FALSE]

TopFrame(st) == st.stack[Len(st.stack)]
WithTop(st, f) == [st.stack EXCEPT ![Len(st.stack)] = f]

\* a string, a number or an identifier
OnOperand(st, node, isStr) ==
    IF st.dot THEN
        IF node.n = "Name"
        THEN PState(st.stack, Node("Attribute", st.cur, node.v), TRUE, FALSE, FALSE)
        ELSE PFail
    ELSE IF st.have THEN
        \* adjacent string literals are one string
        IF isStr /\ st.lit
        THEN PState(st.stack,
                    Node("Constant", PyStr(st.cur.v.v \o node.v.v), <<>>),
                    TRUE, TRUE, FALSE)
        ELSE PFail
    ELSE PState(st.stack, node, TRUE, isStr, FALSE)

\* an opening bracket: a call or a subscription after an expression, a
\* display otherwise
OnOpen(st, c) ==
    IF st.dot THEN PFail
    ELSE IF st.have THEN
        IF c = "(" THEN PState(Append(st.stack, Frame("call", st.cur)),
                               NoNode, FALSE, FALSE, FALSE)
        ELSE IF c = "[" THEN PState(Append(st.stack, Frame("sub", st.cur)),
                                    NoNode, FALSE, FALSE, FALSE)
        ELSE PFail
    ELSE PState(Append(st.stack,
                    Frame(CASE c = "[" -> "list" [] c = "(" -> "paren"
                            [] c = "{" -> "brace", NoNode)),
                NoNode, FALSE, FALSE, FALSE)

OnComma(st) ==
    IF st.dot \/ ~st.have THEN PFail
    ELSE LET f == TopFrame(st) IN
        IF f.kind = "brace" /\ f.mode = "dict" THEN
            IF f.hasKey
            THEN PState(WithTop(st, [f EXCEPT !.keys = Append(@, f.key),
                                              !.elts = Append(@, st.cur),
                                              !.hasKey = FALSE]),
                        NoNode, FALSE, FALSE, FALSE)
            ELSE PFail
        ELSE IF f.kind = "brace"
            THEN PState(WithTop(st, [f EXCEPT !.mode = "set",
                                              !.elts = Append(@, st.cur)]),
                        NoNode, FALSE, FALSE, FALSE)
        ELSE PState(WithTop(st, [f EXCEPT !.elts = Append(@, st.cur)]),
                    NoNode, FALSE, FALSE, FALSE)

OnColon(st) ==
    IF st.dot \/ ~st.have THEN PFail
    ELSE LET f == TopFrame(st) IN
        IF f.kind = "brace" /\ f.mode \in {"none", "dict"} /\ ~f.hasKey
        THEN PState(WithTop(st, [f EXCEPT !.mode = "dict", !.key = st.cur,
                                          !.hasKey = TRUE]),
                    NoNode, FALSE, FALSE, FALSE)
        ELSE PFail

OnDot(st) ==
    IF st.have /\ ~st.dot
    THEN PState(st.stack, st.cur, TRUE, FALSE, TRUE)
    ELSE PFail

\* the node a closed bracket stands for, or NoNode when it is ill-formed
ClosedNode(st, f) ==
    LET elts == IF st.have THEN Append(f.elts, st.cur) ELSE f.elts IN
    CASE f.kind = "list" -> Node("List", elts, <<>>)
      [] f.kind = "sub" ->
            IF elts = <<>> THEN NoNode ELSE Node("Subscript", f.base, elts)
      [] f.kind = "call" -> Node("Call", f.base, elts)
      [] f.kind = "paren" ->
            IF st.have /\ f.elts = <<>> THEN st.cur
            ELSE Node("Tuple", elts, <<>>)
      [] f.kind = "brace" /\ f.mode = "none" ->
            IF st.have THEN Node("Set", elts, <<>>) ELSE Node("Dict", <<>>, <<>>)
      [] f.kind = "brace" /\ f.mode = "set" -> Node("Set", elts, <<>>)
      [] f.kind = "brace" /\ f.mode = "dict" ->
            IF st.have /\ f.hasKey
                THEN Node("Dict", Append(f.keys, f.key), elts)
            ELSE IF ~st.have /\ ~f.hasKey THEN Node("Dict", f.keys, f.elts)
            ELSE NoNode

Matches(kind, c) ==
    \/ c = "]" /\ kind \in {"list", "sub"}
    \/ c = ")" /\ kind \in {"paren", "call"}
    \/ c = "}" /\ kind = "brace"

OnClose(st, c) ==
    IF st.dot \/ Len(st.stack) = 1 THEN PFail
    ELSE LET f == TopFrame(st)
             node == ClosedNode(st, f)
         IN
         IF ~Matches(f.kind, c) \/ node.n = "None" THEN PFail
         ELSE PState(SubSeq(st.stack, 1, Len(st.stack) - 1), node, TRUE,
                     FALSE, FALSE)

ParseToken(st, t) ==
    CASE t.k = "str" -> OnOperand(st, Node("Constant", PyStr(t.v), <<>>), TRUE)
      [] t.k = "num" -> OnOperand(st, Node("Constant", PyInt(t.v), <<>>), FALSE)
      [] t.k = "name" ->
            OnOperand(st, IF t.v = <<"None">> THEN Node("Constant", PyNone, <<>>)
                          ELSE Node("Name", t.v, <<>>), FALSE)
      [] t.k = "op" /\ t.v \in Openers -> OnOpen(st, t.v)
      [] t.k = "op" /\ t.v \in Closers -> OnClose(st, t.v)
      [] t.k = "op" /\ t.v = "," -> OnComma(st)
      [] t.k = "op" /\ t.v = ":" -> OnColon(st)
      [] t.k = "op" /\ t.v = "." -> OnDot(st)
      [] OTHER -> PFail

RECURSIVE ParseRun(_, _, _)
ParseRun(T, i, st) ==
    IF ~st.ok \/ i > Len(T) THEN st
    ELSE ParseRun(T, i + 1, ParseToken(st, T[i]))

\* the end of the text: one expression, or a tuple when commas were read
ParseEnd(st) ==
    IF ~st.ok \/ st.dot \/ Len(st.stack) # 1 THEN ParseFail
    ELSE LET f == st.stack[1] IN
        IF f.elts = <<>> THEN
            IF st.have THEN Parsed(st.cur) ELSE ParseFail
        ELSE Parsed(Node("Tuple",
                         IF st.have THEN Append(f.elts, st.cur) ELSE f.elts,
                         <<>>))

\* ast.parse(text, mode='eval')
Parse(s) ==
    LET l == Tokenize(s) IN
    IF l.ok
    THEN ParseEnd(ParseRun(l.toks, 1,
                           PState(<<Frame("top", NoNode)>>, NoNode, FALSE,
                                  FALSE, FALSE)))
    ELSE ParseFail

----------------------------------------------------------------------------
(* ast.literal_eval, step 3: the conversion of the tree into a value.  A    *)
(* result is [k, v, ev]: k is "ok" or the exception raised, v the value, ev *)
(* the calls that were executed on the way.                                 *)

Ok(x, ev) == [k |-> "ok", v |-> x, ev |-> ev]
Raised(e, ev) == [k |-> e, v |-> PyNone, ev |-> ev]

\* eval() in place of literal_eval: the call is executed
ConvertCallEval(node) ==
    Ok(PyNone, {IF node.v.n = "Name" THEN node.v.v ELSE <<"callable">>})

\* a Call node: only the empty-set form set() is a literal, and nothing is called
ConvertCall(node) ==
    IF node.v.n = "Name" /\ node.v.v = <<"set">> /\ node.w = <<>>
    THEN Ok(PySet(<<>>), {})
    ELSE Raised("ValueError", {})

RECURSIVE Convert(_)
RECURSIVE ConvertAll(_, _, _, _)
RECURSIVE ConvertSet(_, _, _, _)
RECURSIVE ConvertDict(_, _, _, _, _)

\* list(map(_convert, elts))
ConvertAll(elts, j, acc, ev) ==
    IF j > Len(elts) THEN Ok(acc, ev)
    ELSE LET r == Convert(elts[j]) IN
        IF r.k # "ok" THEN Raised(r.k, ev \cup r.ev)
        ELSE ConvertAll(elts, j + 1, Append(acc, r.v), ev \cup r.ev)

\* set(map(_convert, elts)): each element is hashed as it arrives
ConvertSet(elts, j, acc, ev) ==
    IF j > Len(elts) THEN Ok(PySet(acc), ev)
    ELSE LET r == Convert(elts[j]) IN
        IF r.k # "ok" THEN Raised(r.k, ev \cup r.ev)
        ELSE IF ~Hashable(r.v) THEN Raised("TypeError", ev \cup r.ev)
        ELSE ConvertSet(elts, j + 1,
                IF \E m \in 1..Len(acc) : PyEq(acc[m], r.v) THEN acc
                ELSE Append(acc, r.v),
                ev \cup r.ev)

\* dict(zip(map(_convert, keys), map(_convert, values))): key and value are
\* converted, then the key is hashed, pair by pair
ConvertDict(keys, values, j, acc, ev) ==
    IF j > Len(keys) THEN Ok(PyDict(acc), ev)
    ELSE LET k == Convert(keys[j]) IN
        IF k.k # "ok" THEN Raised(k.k, ev \cup k.ev)
        ELSE LET x == Convert(values[j]) IN
            IF x.k # "ok" THEN Raised(x.k, ev \cup k.ev \cup x.ev)
            ELSE IF ~Hashable(k.v) THEN Raised("TypeError", ev \cup k.ev \cup x.ev)
            ELSE ConvertDict(keys, values, j + 1, SetItem(acc, k.v, x.v),
                             ev \cup k.ev \cup x.ev)

\* ast.literal_eval._convert
Convert(node) ==
    CASE node.n = "Constant" -> Ok(node.v, {})
      [] node.n = "List" ->
            LET r == ConvertAll(node.v, 1, <<>>, {}) IN
            IF r.k = "ok" THEN Ok(PyList(r.v), r.ev) ELSE r
      [] node.n = "Tuple" ->
            LET r == ConvertAll(node.v, 1, <<>>, {}) IN
            IF r.k = "ok" THEN Ok(PyTuple(r.v), r.ev) ELSE r
      [] node.n = "Set" -> ConvertSet(node.v, 1, <<>>, {})
      [] node.n = "Dict" -> ConvertDict(node.v, node.w, 1, <<>>, {})
      [] node.n = "Call" -> ConvertCall(node)
      [] OTHER -> Raised("ValueError", {})

\* ast.literal_eval(text)
literal_eval(s) ==
    LET p == Parse(s) IN
    IF p.ok THEN Convert(p.node) ELSE Raised("SyntaxError", {})

----------------------------------------------------------------------------
(* repr() and str(): the literal text form of a value *)

RECURSIVE IntText(_)
IntText(n) ==
    IF n < 10 THEN <<DigitChar(n)>>
    ELSE Append(IntText(n \div 10), DigitChar(n % 10))

Contains(s, c) == \E j \in 1..Len(s) : s[j] = c

RECURSIVE ReprChars(_, _)
ReprChars(s, q) ==
    IF s = <<>> THEN <<>>
    ELSE LET c == Head(s) IN
        (CASE c = BS -> <<BS, BS>>
           [] c = NL -> <<BS, "n">>
           [] c = q -> <<BS, c>>
           [] OTHER -> <<c>>) \o ReprChars(Tail(s), q)

\* repr(str): double quotes when the text has a single quote and no double one
ReprStr(s) ==
    LET q == IF Contains(s, SQ) /\ ~Contains(s, DQ) THEN DQ ELSE SQ IN
    <<q>> \o ReprChars(s, q) \o <<q>>

RECURSIVE Repr(_)
RECURSIVE ReprJoin(_, _)
RECURSIVE ReprItems(_, _)

ReprJoin(xs, j) ==
    IF j > Len(xs) THEN <<>>
    ELSE (IF j > 1 THEN <<",", " ">> ELSE <<>>) \o Repr(xs[j]) \o ReprJoin(xs, j + 1)

ReprItems(kvs, j) ==
    IF j > Len(kvs) THEN <<>>
    ELSE (IF j > 1 THEN <<",", " ">> ELSE <<>>)
         \o Repr(kvs[j][1]) \o <<":", " ">> \o Repr(kvs[j][2])
         \o ReprItems(kvs, j + 1)

Repr(x) ==
    CASE x.t = "str" -> ReprStr(x.v)
      [] x.t = "int" -> IntText(x.v)
      [] x.t = "none" -> <<"None">>
      [] x.t = "list" -> <<"[">> \o ReprJoin(x.v, 1) \o <<"]">>
      [] x.t = "tuple" ->
            <<"(">> \o ReprJoin(x.v, 1)
            \o (IF Len(x.v) = 1 THEN <<",">> ELSE <<>>) \o <<")">>
      [] x.t = "set" ->
            IF x.v = <<>> THEN <<"set", "(", ")">>
            ELSE <<"{">> \o ReprJoin(x.v, 1) \o <<"}">>
      [] x.t = "dict" -> <<"{">> \o ReprItems(x.v, 1) \o <<"}">>

\* format(value): a string as it is, anything else as its repr
Str(x) == IF x.t = "str" THEN x.v ELSE Repr(x)

----------------------------------------------------------------------------
(* get_aspects (main.py) *)

\* the hard-coded fallback list; each text is kept whole, in translation
FallbackChecklist ==
    PyList(<<
        AspectRecord(<<"Requirements for the functionality of the system">>, <<
            <<"Which main functions must the system perform?">>,
            <<"Which business processes does the system automate?">>,
            <<"Which user roles and rights must be implemented?">>,
            <<"Must the system be scalable and its functionality extensible?">>,
            <<"Which integrations with other systems are mandatory?">> >>),
        AspectRecord(<<"Requirements for security and data protection">>, <<
            <<"What are the requirements for storing and transferring personal data?">>,
            <<"Which information protection measures must be implemented?">>,
            <<"Does the system comply with the information security regulations?">>,
            <<"Which mechanisms detect and prevent unauthorised access?">>,
            <<"How is protection from external and internal threats implemented?">> >>),
        AspectRecord(<<"Requirements for the interface and user experience">>, <<
            <<"What are the requirements for a convenient and intuitive interface?">>,
            <<"Must the system support mobile devices and different platforms?">>,
            <<"Which language settings must be implemented?">>,
            <<"What are the accessibility requirements for people with disabilities?">>,
            <<"Must training and user support functions be implemented?">> >>)
    >>)

\* isinstance(x, list) and all(isinstance(a, dict) for a in x)
IsListOfDicts(x) ==
    x.t = "list" /\ \A j \in 1..Len(x.v) : x.v[j].t = "dict"

Returned(x, printed, ev) ==
    [k |-> "return", v |-> x, exc |-> "none", printed |-> printed, ev |-> ev]
Propagated(e, ev) ==
    [k |-> "raise", v |-> PyNone, exc |-> e, printed |-> <<>>, ev |-> ev]

\* the except branch without its assignment: the initial [{}] is returned
FallBackInitialValue(ev) ==
    Returned(PyList(<<PyDict(<<>>)>>), <<"parse error", "using the fallback list">>, ev)

\* the except (ValueError, SyntaxError) branch: two lines printed, the fallback returned
FallBack(ev) ==
    Returned(FallbackChecklist, <<"parse error", "using the fallback list">>, ev)

\* a parser that salvages the records of a partly valid list
get_aspects_Salvage(aspect_questions_string) ==
    LET r == literal_eval(Strip(aspect_questions_string)) IN
    IF r.k = "ok" THEN
        IF r.v.t = "list" /\ \E j \in 1..Len(r.v.v) : r.v.v[j].t = "dict"
        THEN Returned(PyList(SelectSeq(r.v.v, LAMBDA e : e.t = "dict")), <<>>, r.ev)
        ELSE FallBack(r.ev)
    ELSE IF r.k \in {"ValueError", "SyntaxError"} THEN FallBack(r.ev)
    ELSE Propagated(r.k, r.ev)

\* a parser that also rejects the empty list
get_aspects_RejectEmpty(aspect_questions_string) ==
    LET r == literal_eval(Strip(aspect_questions_string)) IN
    IF r.k = "ok" THEN
        IF IsListOfDicts(r.v) /\ r.v.v # <<>>
        THEN Returned(r.v, <<>>, r.ev) ELSE FallBack(r.ev)
    ELSE IF r.k \in {"ValueError", "SyntaxError"} THEN FallBack(r.ev)
    ELSE Propagated(r.k, r.ev)

get_aspects(aspect_questions_string) ==
    LET r == literal_eval(Strip(aspect_questions_string)) IN
    IF r.k = "ok" THEN
        IF IsListOfDicts(r.v) THEN Returned(r.v, <<>>, r.ev) ELSE FallBack(r.ev)
    ELSE IF r.k \in {"ValueError", "SyntaxError"} THEN FallBack(r.ev)
    ELSE Propagated(r.k, r.ev)

----------------------------------------------------------------------------
(* ReqChecker.req_details_crew (crew.py) *)

NoCrew == [agents |-> <<>>, tasks |-> <<>>]

Agent(kind, aspect) == [kind |-> kind, aspect |-> aspect]
Task(kind, aspect, questions, agent, context) ==
    [kind |-> kind, aspect |-> aspect, questions |-> questions,
     agent |-> agent, context |-> context]

\* template.format(**aspect_questions) for a template naming the given fields:
\* the exception it raises, or "none"
FormatError(aspect_questions, fields) ==
    IF aspect_questions.t # "dict" THEN "TypeError"
    ELSE IF \E j \in 1..Len(fields) : ~HasKey(aspect_questions, fields[j])
        THEN "KeyError"
    ELSE "none"

\* role, goal and backstory are the fixed texts with '{aspect}' filled in
req_expert(aspect_questions) ==
    Agent("expert", Str(GetItem(aspect_questions, KeyAspect)))

\* description and expected_output with '{aspect}' and '{questions}' filled in
req_details_task(aspect_questions, agent) ==
    Task("expert", Str(GetItem(aspect_questions, KeyAspect)),
         Str(GetItem(aspect_questions, KeyQuestions)), agent, <<>>)

req_checklist_builder == Agent("builder", <<>>)

\* a merge task that is given the last expert task only
req_checklist_build_task_LastOnly(expert_tasks) ==
    Task("merge", <<>>, <<>>, req_checklist_builder,
         IF expert_tasks = <<>> THEN <<>> ELSE <<expert_tasks[Len(expert_tasks)]>>)

req_checklist_build_task(expert_tasks) ==
    Task("merge", <<>>, <<>>, req_checklist_builder, expert_tasks)

\* the loop over aspects: [exc, experts, tasks] after the records from j on
RECURSIVE BuildExperts(_, _, _, _)
BuildExperts(xs, j, req_experts, expert_tasks) ==
    IF j > Len(xs)
    THEN [exc |-> "none", experts |-> req_experts, tasks |-> expert_tasks]
    ELSE LET aspect_desc == xs[j]
             e1 == FormatError(aspect_desc, <<KeyAspect>>)
             e2 == FormatError(aspect_desc, <<KeyAspect, KeyQuestions>>)
         IN
         IF e1 # "none"
         THEN [exc |-> e1, experts |-> req_experts, tasks |-> expert_tasks]
         ELSE IF e2 # "none"
         THEN [exc |-> e2, experts |-> req_experts, tasks |-> expert_tasks]
         ELSE LET expert == req_expert(aspect_desc) IN
              BuildExperts(xs, j + 1, Append(req_experts, expert),
                  Append(expert_tasks, req_details_task(aspect_desc, expert)))

req_details_crew(xs) ==
    LET b == BuildExperts(xs.v, 1, <<>>, <<>>) IN
    IF b.exc # "none" THEN [exc |-> b.exc, crew |-> NoCrew]
    ELSE [exc |-> "none",
          crew |-> [agents |-> Append(b.experts, req_checklist_builder),
                    tasks |-> Append(b.tasks, req_checklist_build_task(b.tasks))]]

----------------------------------------------------------------------------
(* The texts a generation stage can hand to get_aspects *)

MaxAspects == 2

\* texts of aspects and questions: plain, with one kind of quote, with both
\* kinds, with a backslash and a line break, with brackets, and empty
PlainText == <<"Security">>
QuoteText == <<"it", SQ, "s">>
BothQuotesText == <<DQ, "q", DQ, " ", SQ>>
EscapesText == <<"a", BS, NL, "b", BS>>
BracketsText == <<"[", "{", SQ, ":", ",", " ", "}", "]", "?">>

AspectNames == {PlainText, QuoteText, EscapesText, <<>>}
QuestionLists ==
    {<<>>, <<PlainText>>, <<QuoteText, BothQuotesText>>,
     <<EscapesText, <<>>, BracketsText>>}

AspectRecords == {AspectRecord(a, qs) : a \in AspectNames, qs \in QuestionLists}

\* every list of at most n records
RECURSIVE ListsUpTo(_, _)
ListsUpTo(S, n) ==
    IF n = 0 THEN {<<>>}
    ELSE LET shorter == ListsUpTo(S, n - 1) IN
         shorter \cup {Append(xs, x) : xs \in {ys \in shorter : Len(ys) = n - 1}, x \in S}

WellFormedChecklists == {PyList(xs) : xs \in ListsUpTo(AspectRecords, MaxAspects)}

\* white space a generation stage may put around the literal
Paddings == {<<<<>>, <<>>>>, <<<<" ", NL>>, <<NL>>>>}

\* texts that are not the literal form of a well-formed checklist
TextEmpty == <<>>
TextBlank == <<" ", "\n">>
TextNotAList == <<"not", " ", "a", " ", "list">>
TextProse ==
    <<"Here", " ", "is", " ", "the", " ", "list", ":", " ", "[", "{", "'",
      "aspect", "'", ":", " ", "'", "A", "'", ",", " ", "'", "questions",
      "'", ":", " ", "[", "'", "q", "'", "]", "}", "]">>
TextLabelLine ==
    <<"Result", "\n", "[", "{", "'", "aspect", "'", ":", " ", "'", "A", "'",
      ",", " ", "'", "questions", "'", ":", " ", "[", "'", "q", "'", "]", "}", "]">>
TextUnclosed ==
    <<"[", "{", "'", "aspect", "'", ":", " ", "'", "A", "'", ",", " ", "'",
      "questions", "'", ":", " ", "[", "'", "q", "'", "]", "}">>
TextUnterminated ==
    <<"[", "{", "'", "aspect", "'", ":", " ", "'", "A", ",", " ", "'",
      "questions", "'", ":", " ", "[", "'", "q", "'", "]", "}", "]">>
TextTwoLines ==
    <<"[", "{", "'", "aspect", "'", ":", " ", "'", "A", "'", ",", " ", "'",
      "questions", "'", ":", " ", "[", "]", "}", "]", "\n", "[", "{", "'",
      "aspect", "'", ":", " ", "'", "B", "'", ",", " ", "'", "questions",
      "'", ":", " ", "[", "]", "}", "]">>
TextInt == <<"1">>
TextStr == <<"'", "A", "'">>
TextNone == <<"None">>
TextDict ==
    <<"{", "'", "aspect", "'", ":", " ", "'", "A", "'", ",", " ", "'",
      "questions", "'", ":", " ", "[", "'", "q", "'", "]", "}">>
TextTopTuple ==
    <<"{", "'", "aspect", "'", ":", " ", "'", "A", "'", ",", " ", "'",
      "questions", "'", ":", " ", "[", "'", "q", "'", "]", "}", ",", " ",
      "{", "'", "aspect", "'", ":", " ", "'", "B", "'", ",", " ", "'",
      "questions", "'", ":", " ", "[", "]", "}">>
TextListOfInts == <<"[", "1", ",", " ", "2", "]">>
TextListOfSets == <<"[", "{", "1", ",", " ", "2", "}", "]">>
TextListOfLists ==
    <<"[", "[", "'", "aspect", "'", ",", " ", "'", "questions", "'", "]",
      "]">>
TextEmptySet == <<"set", "(", ")">>
TextMixed ==
    <<"[", "{", "'", "aspect", "'", ":", " ", "'", "A", "'", ",", " ", "'",
      "questions", "'", ":", " ", "[", "'", "q", "'", "]", "}", ",", " ",
      "1", "]">>
TextMixedStr ==
    <<"[", "'", "A", "'", ",", " ", "{", "'", "aspect", "'", ":", " ", "'",
      "B", "'", ",", " ", "'", "questions", "'", ":", " ", "[", "'", "q",
      "'", "]", "}", "]">>
TextEmptyList == <<"[", "]">>
TextEmptyRecord == <<"[", "{", "}", "]">>
TextNoQuestions ==
    <<"[", "{", "'", "aspect", "'", ":", " ", "'", "A", "'", "}", "]">>
TextNoAspect ==
    <<"[", "{", "'", "questions", "'", ":", " ", "[", "'", "q", "'", "]",
      "}", "]">>
TextQuestionsInt ==
    <<"[", "{", "'", "aspect", "'", ":", " ", "'", "A", "'", ",", " ", "'",
      "questions", "'", ":", " ", "1", "}", "]">>
TextValidThenEmpty ==
    <<"[", "{", "'", "aspect", "'", ":", " ", "'", "A", "'", ",", " ", "'",
      "questions", "'", ":", " ", "[", "'", "q", "'", "]", "}", ",", " ",
      "{", "}", "]">>
TextIntKey == <<"[", "{", "1", ":", " ", "2", "}", "]">>
TextIntKeyExtra ==
    <<"[", "{", "'", "aspect", "'", ":", " ", "'", "A", "'", ",", " ", "'",
      "questions", "'", ":", " ", "[", "'", "q", "'", "]", ",", " ", "1",
      ":", " ", "2", "}", "]">>
TextAspectNone ==
    <<"[", "{", "'", "aspect", "'", ":", " ", "None", ",", " ", "'",
      "questions", "'", ":", " ", "[", "'", "q", "'", "]", "}", "]">>
TextQuestionsTuple ==
    <<"[", "{", "'", "aspect", "'", ":", " ", "'", "A", "'", ",", " ", "'",
      "questions", "'", ":", " ", "(", "'", "q", "'", ",", ")", "}", "]">>
TextDuplicateKey ==
    <<"[", "{", "'", "aspect", "'", ":", " ", "'", "A", "'", ",", " ", "'",
      "aspect", "'", ":", " ", "'", "B", "'", ",", " ", "'", "questions",
      "'", ":", " ", "[", "'", "q", "'", "]", ",", "}", "]">>
TextAdjacent ==
    <<"[", "{", "'", "aspect", "'", ":", " ", "'", "A", "'", " ", "'", "B",
      "'", ",", " ", "'", "questions", "'", ":", " ", "[", "'", "q", "'",
      "\n", "'", "r", "'", "]", "}", "]">>
TextName ==
    <<"[", "{", "'", "aspect", "'", ":", " ", "A", ",", " ", "'",
      "questions", "'", ":", " ", "[", "]", "}", "]">>
TextCall ==
    <<"[", "{", "'", "aspect", "'", ":", " ", "g", "(", "'", "x", "'", ")",
      ",", " ", "'", "questions", "'", ":", " ", "[", "]", "}", "]">>
TextImport ==
    <<"__import__", "(", "'", "os", "'", ")", ".", "system", "(", "'", "x",
      "'", ")">>
TextAttribute ==
    <<"[", "{", "'", "aspect", "'", ":", " ", "os", ".", "name", ",", " ",
      "'", "questions", "'", ":", " ", "[", "]", "}", "]">>
TextSubscript ==
    <<"[", "{", "'", "aspect", "'", ":", " ", "'", "A", "'", ",", " ", "'",
      "questions", "'", ":", " ", "q", "[", "1", "]", "}", "]">>
TextCallInList == <<"[", "g", "(", ")", "]">>
TextListKey == <<"{", "[", "1", "]", ":", " ", "2", "}">>
TextListKeyInList == <<"[", "{", "[", "1", "]", ":", " ", "2", "}", "]">>
TextListKeyThenCall ==
    <<"[", "{", "[", "1", "]", ":", " ", "2", ",", " ", "'", "aspect", "'",
      ":", " ", "g", "(", ")", "}", "]">>
TextListKeyCallValue ==
    <<"[", "{", "[", "1", "]", ":", " ", "g", "(", ")", "}", "]">>
TextListInSet ==
    <<"[", "{", "[", "1", "]", ",", " ", "g", "(", ")", "}", "]">>
TextCallThenListKey ==
    <<"[", "g", "(", ")", ",", " ", "{", "[", "1", "]", ":", " ", "2", "}",
      "]">>
TextTupleKey ==
    <<"[", "{", "(", "1", ",", " ", "'", "a", "'", ")", ":", " ", "2", ",",
      " ", "(", "(", ")", ",", " ", "None", ")", ":", " ", "1", "}", "]">>
TextTupleListKey ==
    <<"[", "{", "(", "1", ",", " ", "[", "2", "]", ")", ":", " ", "2", "}",
      "]">>
TextBackslash ==
    <<"[", "{", "'", "aspect", "'", ":", " ", "'", "A", "'", ",", " ", "\\",
      "\n", " ", "'", "questions", "'", ":", " ", "[", "]", "}", "]">>
TextStrayBackslash ==
    <<"[", "{", "'", "aspect", "'", ":", " ", "'", "A", "'", "}", "\\", "]">>
TextStrayCloser == <<"[", "]", "]">>
TextLeadingZero ==
    <<"[", "{", "'", "aspect", "'", ":", " ", "0", "1", "}", "]">>
TextDigitName ==
    <<"[", "{", "'", "aspect", "'", ":", " ", "1", "a", "}", "]">>
TextParen ==
    <<"(", "[", "{", "'", "aspect", "'", ":", " ", "'", "A", "'", ",", " ",
      "'", "questions", "'", ":", " ", "[", "'", "q", "'", "]", "}", "]",
      ")">>
TextColon == <<"aspect", ":", " ", "A">>

OtherTexts ==
    {TextEmpty, TextBlank, TextNotAList, TextProse, TextLabelLine,
     TextUnclosed, TextUnterminated, TextTwoLines, TextInt, TextStr,
     TextNone, TextDict, TextTopTuple, TextListOfInts, TextListOfSets,
     TextListOfLists, TextEmptySet, TextMixed, TextMixedStr, TextEmptyList,
     TextEmptyRecord, TextNoQuestions, TextNoAspect, TextQuestionsInt,
     TextValidThenEmpty, TextIntKey, TextIntKeyExtra, TextAspectNone,
     TextQuestionsTuple, TextDuplicateKey, TextAdjacent, TextName, TextCall,
     TextImport, TextAttribute, TextSubscript, TextCallInList, TextListKey,
     TextListKeyInList, TextListKeyThenCall, TextListKeyCallValue,
     TextListInSet, TextCallThenListKey, TextTupleKey, TextTupleListKey,
     TextBackslash, TextStrayBackslash, TextStrayCloser, TextLeadingZero,
     TextDigitName, TextParen, TextColon}

----------------------------------------------------------------------------
(* One pass of run (main.py): a generation stage has produced raw;          *)
(* get_aspects parses it and req_details_crew is built over the result.     *)

NoChecklist == PyNone

FormatIdle ==
    /\ results_data = <<>>
    /\ markdown_output = <<>>
    /\ fpc = "idle"

RunIdle ==
    /\ trace = <<>>
    /\ ti = 1
    /\ outputs = <<>>
    /\ started = <<>>

NoDocument == [ext |-> "", decodable |-> FALSE, convertible |-> FALSE, content |-> "empty"]

DocIdle ==
    /\ dpc = "idle"
    /\ document = NoDocument
    /\ file_bytes = "none"
    /\ docs = "none"
    /\ backend_calls = <<>>
    /\ ui = <<>>

\* a questions file: its text, whether its bytes are UTF-8, and what it was
\* written from (kind, source)
File(text, decodable, kind, source) ==
    [text |-> text, decodable |-> decodable, kind |-> kind, source |-> source]
NoFile == File(<<>>, FALSE, "none", NoChecklist)

SidebarIdle ==
    /\ uploaded_questions_file = NoFile
    /\ current_questions_json = <<>>
    /\ exported = NoChecklist
    /\ downloaded = NoFile
    /\ kept = TRUE
    /\ event = "none"
    /\ sidebar = <<>>

SessionIdle == current_questions_structure = PyList(<<>>) /\ SidebarIdle

OtherIdle == FormatIdle /\ RunIdle /\ DocIdle /\ SessionIdle

QAIdle ==
    /\ qa_chain = FALSE
    /\ questions_data = <<>>
    /\ qpc = "idle"
    /\ ai = 1
    /\ qi = 1
    /\ processed_questions = <<>>
    /\ results_by_aspect = <<>>
    /\ questions_processed_count = 0
    /\ progress = <<>>
    /\ calls = <<>>

InitParse ==
    /\ \/ \E c \in WellFormedChecklists, pad \in Paddings :
            /\ original = c
            /\ raw = pad[1] \o Repr(c) \o pad[2]
       \/ /\ original = NoChecklist
          /\ raw \in OtherTexts
    /\ pc = "start"
    /\ aspects = PyNone
    /\ exc = "none"
    /\ log = <<>>
    /\ evaluated = {}
    /\ crew = NoCrew
    /\ QAIdle
    /\ OtherIdle

\* aspects = get_aspects(result)
GetAspectsCall ==
    /\ pc = "start"
    /\ LET r == get_aspects(raw) IN
        /\ pc' = IF r.k = "return" THEN "parsed" ELSE "raised"
        /\ aspects' = r.v
        /\ exc' = r.exc
        /\ log' = log \o r.printed
        /\ evaluated' = evaluated \cup r.ev
    /\ UNCHANGED <<raw, original, crew, qaVars, otherVars>>

\* ReqChecker().req_details_crew(aspects=aspects)
ReqDetailsCrewCall ==
    /\ pc = "parsed"
    /\ LET r == req_details_crew(aspects) IN
        /\ pc' = IF r.exc = "none" THEN "crew_built" ELSE "crew_raised"
        /\ exc' = r.exc
        /\ crew' = r.crew
    /\ UNCHANGED <<raw, original, aspects, log, evaluated, qaVars, otherVars>>

NextParse == GetAspectsCall \/ ReqDetailsCrewCall

Spec == InitParse /\ [][NextParse]_vars

----------------------------------------------------------------------------
(* Document QA: get_answers_for_structure (st_app.py)                       *)

NO_INFORMATION_FOUND_TEXT ==
    <<"Information", " ", "is", " ", "absent", " ", "from", " ", "the", " ", "document", ".">>
NO_INFORMATION_FOUND_MARKDOWN ==
    <<"<span style='color:red;'>">> \o NO_INFORMATION_FOUND_TEXT \o <<"</span>">>
ERROR_ANSWER_MARKDOWN ==
    <<"<span style='color:orange;'>", "Error", " ", "getting", " ", "the", " ", "answer", "</span>">>
EMPTY_LIST_WARNING == <<"The", " ", "question", " ", "list", " ", "is", " ", "empty", ".">>

\* needle in hay: needle occurs in hay as a contiguous run
ContainsText(hay, needle) ==
    \E i \in 0..(Len(hay) - Len(needle)) :
        \A j \in 1..Len(needle) : hay[i + j] = needle[j]

\* s.replace(old, new) for a one-character old
Replace(s, old, new) == [j \in 1..Len(s) |-> IF s[j] = old THEN new ELSE s[j]]

QAPair(question, answer) == [question |-> question, answer |-> answer]
AspectResult(aspect, qa_pairs) == [aspect |-> aspect, qa_pairs |-> qa_pairs]

\* what qa_chain.invoke does: it raises, or it returns a response with a text
BackendRaises == [kind |-> "raise", text |-> <<>>]
BackendReturns(text) == [kind |-> "ok", text |-> text]

\* the try body without the 'or not answer' test
AnswerMarkdownKeepEmpty(result) ==
    LET answer == Strip(result) IN
    IF ContainsText(answer, NO_INFORMATION_FOUND_TEXT)
    THEN NO_INFORMATION_FOUND_MARKDOWN
    ELSE Replace(answer, NL, "<br>")

\* the try body: the response text trimmed, flagged or with its line breaks
AnswerMarkdown(result) ==
    LET answer == Strip(result) IN
    IF ContainsText(answer, NO_INFORMATION_FOUND_TEXT) \/ answer = <<>>
    THEN NO_INFORMATION_FOUND_MARKDOWN
    ELSE Replace(answer, NL, "<br>")

\* try / except Exception around one question
AnswerOf(outcome) ==
    IF outcome.kind = "raise" THEN ERROR_ANSWER_MARKDOWN
    ELSE AnswerMarkdown(outcome.text)

RECURSIVE TotalQuestions(_)
TotalQuestions(data) ==
    IF data = <<>> THEN 0
    ELSE Len(Head(data).questions) + TotalQuestions(Tail(data))

\* the result when no pipeline was built: every answer is the not-found marker
UnansweredResults(data) ==
    [j \in 1..Len(data) |->
        AspectResult(data[j].aspect,
            [k \in 1..Len(data[j].questions) |->
                QAPair(data[j].questions[k], NO_INFORMATION_FOUND_MARKDOWN)])]

(* inputs *)
MaxQAAspects == 2
MaxQuestions == 2

QAAspectNames == <<<<"Security">>, <<"Data", " ", "input">>>>
QAQuestionTexts == <<<<"Is", " ", "data", " ", "encrypted", "?">>,
                     <<"Who", " ", "enters", " ", "a", "|", "b", "?">>>>

QAAspectName(j) == QAAspectNames[((j - 1) % 2) + 1]
QAQuestion(j, k) == QAQuestionTexts[((j + k) % 2) + 1]

\* checklists of up to MaxQAAspects aspects with up to MaxQuestions questions
QAChecklists ==
    UNION {
        { [j \in 1..n |->
              [aspect |-> QAAspectName(j),
               questions |-> [k \in 1..sizes[j] |-> QAQuestion(j, k)]]]
          : sizes \in [1..n -> 0..MaxQuestions] }
        : n \in 0..MaxQAAspects }

AnswerEmpty == <<>>
AnswerBlank == <<" ", NL>>
AnswerPlain == <<"Yes", ",", " ", "AES", ".">>
AnswerLines == <<" ", "First", ".", NL, "Second", ".", NL>>
AnswerAbsent == NO_INFORMATION_FOUND_TEXT \o <<NL>>
AnswerHedged == <<"Sorry", ".", " ">> \o NO_INFORMATION_FOUND_TEXT

BackendOutcomes ==
    {BackendRaises} \cup
    {BackendReturns(t) : t \in {AnswerEmpty, AnswerBlank, AnswerPlain,
                                AnswerLines, AnswerAbsent, AnswerHedged}}

ParseIdle ==
    /\ raw = <<>>
    /\ original = NoChecklist
    /\ pc = "idle"
    /\ aspects = PyNone
    /\ exc = "none"
    /\ evaluated = {}
    /\ crew = NoCrew

InitQA ==
    /\ ParseIdle
    /\ OtherIdle
    /\ log = <<>>
    /\ qa_chain \in BOOLEAN
    /\ questions_data \in QAChecklists
    /\ qpc = "start"
    /\ ai = 1
    /\ qi = 1
    /\ processed_questions = <<>>
    /\ results_by_aspect = <<>>
    /\ questions_processed_count = 0
    /\ progress = <<>>
    /\ calls = <<>>

total_questions_count == TotalQuestions(questions_data)

\* if not qa_chain: every question gets the not-found marker, no backend call
NoPipeline ==
    /\ qpc = "start"
    /\ ~qa_chain
    /\ results_by_aspect' = UnansweredResults(questions_data)
    /\ qpc' = "done"
    /\ UNCHANGED <<otherVars, parseVars, qa_chain, questions_data, ai, qi, processed_questions,
                   questions_processed_count, progress, calls>>

\* if total_questions_count == 0: a warning and the empty result
NothingToProcess ==
    /\ qpc = "start"
    /\ qa_chain
    /\ total_questions_count = 0
    /\ log' = Append(log, EMPTY_LIST_WARNING)
    /\ results_by_aspect' = <<>>
    /\ qpc' = "done"
    /\ UNCHANGED <<otherVars, raw, original, pc, aspects, exc, evaluated, crew>>
    /\ UNCHANGED <<qa_chain, questions_data, ai, qi, processed_questions,
                   questions_processed_count, progress, calls>>

\* for aspect_item in questions_data: processed_questions = []
BeginAspect ==
    /\ \/ qpc = "start" /\ qa_chain /\ total_questions_count > 0
       \/ qpc = "next_aspect"
    /\ ai <= Len(questions_data)
    /\ processed_questions' = <<>>
    /\ qi' = 1
    /\ qpc' = "questions"
    /\ UNCHANGED <<otherVars, parseVars, qa_chain, questions_data, ai, results_by_aspect,
                   questions_processed_count, progress, calls>>

\* a counter that is advanced only after the question has been answered
ReportProgressAfterAnswer ==
    /\ qpc = "questions"
    /\ qi <= Len(questions_data[ai].questions)
    /\ questions_processed_count' = questions_processed_count + 1
    /\ progress' = Append(progress, <<questions_processed_count, total_questions_count>>)
    /\ qpc' = "asking"
    /\ UNCHANGED <<otherVars, parseVars, qa_chain, questions_data, ai, qi, processed_questions,
                   results_by_aspect, calls>>

\* the head of the inner loop: the counter is advanced and the progress bar
\* is set to questions_processed_count / total_questions_count
ReportProgress ==
    /\ qpc = "questions"
    /\ qi <= Len(questions_data[ai].questions)
    /\ questions_processed_count' = questions_processed_count + 1
    /\ progress' = Append(progress, <<questions_processed_count + 1, total_questions_count>>)
    /\ qpc' = "asking"
    /\ UNCHANGED <<otherVars, parseVars, qa_chain, questions_data, ai, qi, processed_questions,
                   results_by_aspect, calls>>

\* a loop in which an error of the backend ends the function
AnswerQuestionUnguarded ==
    /\ qpc = "asking"
    /\ \E outcome \in BackendOutcomes :
        /\ calls' = Append(calls, outcome)
        /\ IF outcome.kind = "raise"
           THEN /\ qpc' = "done"
                /\ UNCHANGED <<processed_questions, qi>>
           ELSE /\ processed_questions' =
                    Append(processed_questions,
                           QAPair(questions_data[ai].questions[qi], AnswerOf(outcome)))
                /\ qi' = qi + 1
                /\ qpc' = "questions"
    /\ UNCHANGED <<otherVars, parseVars, qa_chain, questions_data, ai, results_by_aspect,
                   questions_processed_count, progress>>

\* the rest of the pass: the backend call and the recorded pair
AnswerQuestion ==
    /\ qpc = "asking"
    /\ \E outcome \in BackendOutcomes :
        /\ calls' = Append(calls, outcome)
        /\ IF outcome.kind = "raise"
           THEN log' = Append(log, <<"Error processing question">> \o questions_data[ai].questions[qi])
           ELSE log' = log
        /\ processed_questions' =
            Append(processed_questions,
                   QAPair(questions_data[ai].questions[qi], AnswerOf(outcome)))
    /\ qi' = qi + 1
    /\ qpc' = "questions"
    /\ UNCHANGED <<otherVars, raw, original, pc, aspects, exc, evaluated, crew>>
    /\ UNCHANGED <<qa_chain, questions_data, ai, results_by_aspect,
                   questions_processed_count, progress>>

\* an outer loop that leaves out the aspects without questions
EndAspectSkipEmpty ==
    /\ qpc = "questions"
    /\ qi > Len(questions_data[ai].questions)
    /\ results_by_aspect' =
        IF processed_questions = <<>> THEN results_by_aspect
        ELSE Append(results_by_aspect,
                    AspectResult(questions_data[ai].aspect, processed_questions))
    /\ ai' = ai + 1
    /\ qpc' = "next_aspect"
    /\ UNCHANGED <<otherVars, parseVars, qa_chain, questions_data, qi, processed_questions,
                   questions_processed_count, progress, calls>>

\* an outer loop that empties the question list of the record it has done
EndAspectConsuming ==
    /\ qpc = "questions"
    /\ qi > Len(questions_data[ai].questions)
    /\ results_by_aspect' =
        Append(results_by_aspect,
               AspectResult(questions_data[ai].aspect, processed_questions))
    /\ questions_data' = [questions_data EXCEPT ![ai].questions = <<>>]
    /\ ai' = ai + 1
    /\ qpc' = "next_aspect"
    /\ UNCHANGED <<otherVars, parseVars, qa_chain, qi, processed_questions,
                   questions_processed_count, progress, calls>>

\* results_by_aspect.append(...) once the questions of the aspect are done
EndAspect ==
    /\ qpc = "questions"
    /\ qi > Len(questions_data[ai].questions)
    /\ results_by_aspect' =
        Append(results_by_aspect,
               AspectResult(questions_data[ai].aspect, processed_questions))
    /\ ai' = ai + 1
    /\ qpc' = "next_aspect"
    /\ UNCHANGED <<otherVars, parseVars, qa_chain, questions_data, qi, processed_questions,
                   questions_processed_count, progress, calls>>

\* the outer loop is over: return results_by_aspect
Finish ==
    /\ qpc = "next_aspect"
    /\ ai > Len(questions_data)
    /\ qpc' = "done"
    /\ UNCHANGED <<otherVars, parseVars, qa_chain, questions_data, ai, qi, processed_questions,
                   results_by_aspect, questions_processed_count, progress, calls>>

NextQA ==
    \/ NoPipeline
    \/ NothingToProcess
    \/ BeginAspect
    \/ ReportProgress
    \/ AnswerQuestion
    \/ EndAspect
    \/ Finish

SpecQA == InitQA /\ [][NextQA]_vars

----------------------------------------------------------------------------
(* Report Formatter: format_results_to_markdown (st_app.py)                 *)

PIPE == "|"

\* question.replace('|', '\\|')
RECURSIVE EscapePipes(_)
EscapePipes(s) ==
    IF s = <<>> THEN <<>>
    ELSE (IF Head(s) = PIPE THEN <<BS, PIPE>> ELSE <<Head(s)>>) \o EscapePipes(Tail(s))

\* f"## {aspect_result['aspect']}\n\n"
HeadingText(aspect) == <<"#", "#", " ">> \o aspect \o <<NL, NL>>

\* "| Question | Answer |\n" and "|---|---|\n"
TableHeaderLine == <<PIPE, " ", "Question", " ", PIPE, " ", "Answer", " ", PIPE>>
TableSeparatorLine == <<PIPE, "-", "-", "-", PIPE, "-", "-", "-", PIPE>>
TableHeadText == TableHeaderLine \o <<NL>> \o TableSeparatorLine \o <<NL>>

\* f"| {question_md} | {answer_md} |\n"
TableRowText(qa_pair) ==
    <<PIPE, " ">> \o EscapePipes(qa_pair.question) \o <<" ", PIPE, " ">>
        \o qa_pair.answer \o <<" ", PIPE, NL>>

RECURSIVE TableRowsText(_)
TableRowsText(qa_pairs) ==
    IF qa_pairs = <<>> THEN <<>>
    ELSE TableRowText(Head(qa_pairs)) \o TableRowsText(Tail(qa_pairs))

RECURSIVE format_results_to_markdown(_)
format_results_to_markdown(results) ==
    IF results = <<>> THEN <<>>
    ELSE HeadingText(Head(results).aspect) \o TableHeadText
            \o TableRowsText(Head(results).qa_pairs) \o <<NL>>
            \o format_results_to_markdown(Tail(results))

(* inputs *)
MaxFmtAspects == 2
MaxFmtPairs == 2

FmtQuestionPlain == <<"Is", " ", "data", " ", "encrypted", "?">>
FmtQuestionPipes == <<"Who", " ", "enters", " ", "a", PIPE, "b", PIPE, "c", "?">>
FmtQuestionLines == <<"Roles", ":", NL, "admin", PIPE, "user", "?">>
FmtAnswerBreak == <<"Yes", ".", "<br>", "AES", ".">>
FmtAnswerPipe == <<"read", " ", PIPE, " ", "write">>

FmtPairs ==
    {QAPair(q, a) : q \in {FmtQuestionPlain, FmtQuestionPipes, FmtQuestionLines},
                    a \in {FmtAnswerBreak, FmtAnswerPipe}}

FmtResults ==
    UNION { { [j \in 1..n |-> AspectResult(QAAspectName(j), pairs[j])]
              : pairs \in [1..n -> ListsUpTo(FmtPairs, MaxFmtPairs)] }
            : n \in 0..MaxFmtAspects }

InitFormat ==
    /\ ParseIdle
    /\ log = <<>>
    /\ QAIdle
    /\ RunIdle
    /\ DocIdle
    /\ SessionIdle
    /\ results_data \in FmtResults
    /\ markdown_output = <<>>
    /\ fpc = "start"

\* markdown_report = format_results_to_markdown(answers_data)
FormatResults ==
    /\ fpc = "start"
    /\ markdown_output' = format_results_to_markdown(results_data)
    /\ fpc' = "formatted"
    /\ UNCHANGED <<parseVars, qaVars, runVars, sessionVars, docVars, results_data>>

NextFormat == FormatResults

SpecFormat == InitFormat /\ [][NextFormat]_vars

----------------------------------------------------------------------------
(* The generation pipeline: run (main.py)                                   *)

\* a stage of the run: what it was given and whether it returned or raised
Stage(name, arg, outcome) == [stage |-> name, arg |-> arg, outcome |-> outcome]

\* raise Exception(f"An error occurred while running the crew: {e}")
WRAPPED == "Exception"

\* result = "..." before the first crew is started
NO_RESULT_TEXT == <<"Failed to get a result">>

OneRecord == PyList(<<AspectRecord(PlainText, <<QuoteText, BothQuotesText>>)>>)
TwoRecords ==
    PyList(<<AspectRecord(QuoteText, <<PlainText>>),
             AspectRecord(PlainText, <<EscapesText, <<>>, BracketsText>>)>>)

\* what the methodology crew and the merge task can answer
MethodologyTexts ==
    {Repr(OneRecord), Repr(TwoRecords), <<NL>> \o Repr(TwoRecords) \o <<" ">>,
     TextNotAList, TextEmptyList, TextEmptyRecord, TextNoQuestions,
     TextListKey, TextMixed, TextLabelLine}
MergedTexts ==
    {Repr(OneRecord), Repr(TwoRecords), TextNotAList, TextEmptyRecord,
     TextListKey, TextLabelLine, TextEmpty}

\* the output an expert task hands to the merge task
ExpertOutput(task) == <<"questions for ">> \o task.aspect

InitRun ==
    /\ raw = NO_RESULT_TEXT
    /\ original = NoChecklist
    /\ pc = "run_start"
    /\ aspects = PyNone
    /\ exc = "none"
    /\ log = <<>>
    /\ evaluated = {}
    /\ crew = NoCrew
    /\ QAIdle
    /\ FormatIdle
    /\ RunIdle
    /\ DocIdle
    /\ SessionIdle

\* a run that goes on with the initial result text when the first crew fails
MethodologyKickoffSwallowed ==
    /\ pc = "run_start"
    /\ \/ /\ trace' = Append(trace, Stage("methodology", <<>>, "raised"))
          /\ raw' = raw
       \/ \E text \in MethodologyTexts :
          /\ trace' = Append(trace, Stage("methodology", <<>>, "returned"))
          /\ raw' = text
    /\ pc' = "methodology_done"
    /\ UNCHANGED <<original, aspects, exc, log, evaluated, crew, qaVars, fmtVars, sessionVars, docVars, ti, outputs, started>>

\* try: result = ReqChecker().methodology_crew().kickoff().raw
MethodologyKickoff ==
    /\ pc = "run_start"
    /\ \/ /\ trace' = Append(trace, Stage("methodology", <<>>, "raised"))
          /\ pc' = "run_raised"
          /\ exc' = WRAPPED
          /\ raw' = raw
       \/ \E text \in MethodologyTexts :
          /\ trace' = Append(trace, Stage("methodology", <<>>, "returned"))
          /\ pc' = "methodology_done"
          /\ raw' = text
          /\ exc' = exc
    /\ UNCHANGED <<original, aspects, log, evaluated, crew, qaVars, fmtVars, sessionVars, docVars, ti, outputs, started>>

\* aspects = get_aspects(result), on either result
RunGetAspects ==
    /\ pc \in {"methodology_done", "merged"}
    /\ LET r == get_aspects(raw) IN
        /\ trace' = Append(trace, Stage("get_aspects", raw,
                                IF r.k = "raise" THEN "raised" ELSE "returned"))
        /\ pc' = IF r.k = "raise" THEN "run_raised"
                 ELSE IF pc = "methodology_done" THEN "first_parsed" ELSE "run_done"
        /\ aspects' = IF r.k = "raise" THEN aspects ELSE r.v
        /\ exc' = r.exc
        /\ log' = log \o r.printed
        /\ evaluated' = evaluated \cup r.ev
    /\ UNCHANGED <<raw, original, crew, qaVars, fmtVars, sessionVars, docVars, ti, outputs, started>>

\* try: ReqChecker().req_details_crew(aspects=aspects): the crew is built
RunBuildCrew ==
    /\ pc = "first_parsed"
    /\ LET r == req_details_crew(aspects) IN
        /\ trace' = Append(trace, Stage("req_details_crew", aspects,
                                IF r.exc = "none" THEN "returned" ELSE "raised"))
        /\ pc' = IF r.exc = "none" THEN "kickoff" ELSE "run_raised"
        /\ exc' = IF r.exc = "none" THEN exc ELSE WRAPPED
        /\ crew' = r.crew
    /\ ti' = 1
    /\ outputs' = <<>>
    /\ started' = <<>>
    /\ UNCHANGED <<raw, original, aspects, log, evaluated, qaVars, fmtVars, sessionVars, docVars>>

\* what a task finds in its context for a task that has not completed
NOT_AVAILABLE == <<"no output yet">>

\* the context a task is given when it starts: the outputs of the tasks it
\* names (context=expert_tasks for the merge task, none for an expert task)
ContextAtStart(task) ==
    [j \in 1..Len(task.context) |->
        IF \E m \in 1..Len(outputs) : crew.tasks[m] = task.context[j]
        THEN outputs[CHOOSE m \in 1..Len(outputs) : crew.tasks[m] = task.context[j]]
        ELSE NOT_AVAILABLE]

Started(i) ==
    [task |-> i, completed |-> Len(outputs), context |-> ContextAtStart(crew.tasks[i])]

\* tasks started as soon as the crew is kicked off, whatever has completed
StartTaskWithoutWaiting ==
    /\ pc = "kickoff"
    /\ Len(started) < Len(crew.tasks)
    /\ started' = Append(started, Started(Len(started) + 1))
    /\ UNCHANGED <<parseVars, qaVars, fmtVars, sessionVars, docVars, trace, ti, outputs>>

\* .kickoff() under Process.sequential: the next task of the list starts when
\* the tasks before it have completed
StartTask ==
    /\ pc = "kickoff"
    /\ ti <= Len(crew.tasks)
    /\ Len(started) = ti - 1
    /\ started' = Append(started, Started(ti))
    /\ UNCHANGED <<parseVars, qaVars, fmtVars, sessionVars, docVars, trace, ti, outputs>>

\* a run that ends with the merged text and does not parse it
RunTaskNoSecondParse ==
    /\ pc = "kickoff"
    /\ ti <= Len(crew.tasks)
    /\ Len(started) >= ti
    /\ \/ /\ trace' = Append(trace, Stage("task", ti, "raised"))
          /\ pc' = "run_raised"
          /\ exc' = WRAPPED
          /\ UNCHANGED <<raw, ti, outputs>>
       \/ /\ ti < Len(crew.tasks)
          /\ trace' = Append(trace, Stage("task", ti, "returned"))
          /\ outputs' = Append(outputs, ExpertOutput(crew.tasks[ti]))
          /\ ti' = ti + 1
          /\ UNCHANGED <<raw, pc, exc>>
       \/ /\ ti = Len(crew.tasks)
          /\ trace' = Append(trace, Stage("task", ti, "returned"))
          /\ \E text \in MergedTexts :
                /\ raw' = text
                /\ outputs' = Append(outputs, text)
          /\ ti' = ti + 1
          /\ pc' = "run_done"
          /\ exc' = exc
    /\ UNCHANGED <<original, aspects, log, evaluated, crew, qaVars, fmtVars, sessionVars, docVars, started>>

\* .kickoff() under Process.sequential: the task that was started is executed;
\* the backend raises, or the task ends with an output; the output of the last
\* task is the crew's raw result
RunTask ==
    /\ pc = "kickoff"
    /\ ti <= Len(crew.tasks)
    /\ Len(started) >= ti
    /\ \/ /\ trace' = Append(trace, Stage("task", ti, "raised"))
          /\ pc' = "run_raised"
          /\ exc' = WRAPPED
          /\ UNCHANGED <<raw, ti, outputs>>
       \/ /\ ti < Len(crew.tasks)
          /\ trace' = Append(trace, Stage("task", ti, "returned"))
          /\ outputs' = Append(outputs, ExpertOutput(crew.tasks[ti]))
          /\ ti' = ti + 1
          /\ UNCHANGED <<raw, pc, exc>>
       \/ /\ ti = Len(crew.tasks)
          /\ trace' = Append(trace, Stage("task", ti, "returned"))
          /\ \E text \in MergedTexts :
                /\ raw' = text
                /\ outputs' = Append(outputs, text)
          /\ ti' = ti + 1
          /\ pc' = "merged"
          /\ exc' = exc
    /\ UNCHANGED <<original, aspects, log, evaluated, crew, qaVars, fmtVars, sessionVars, docVars, started>>

NextRun ==
    \/ MethodologyKickoff
    \/ RunGetAspects
    \/ RunBuildCrew
    \/ StartTask
    \/ RunTask

SpecRun == InitRun /\ [][NextRun]_vars

----------------------------------------------------------------------------
(* Document analysis: the handler of the analysis button and               *)
(* setup_rag_pipeline_from_bytes (st_app.py)                                *)

DEFAULT_QUESTIONS_STRUCTURE ==
    PyList(<<AspectRecord(<<"General", " ", "requirements">>,
        <<<<"What", " ", "must", " ", "the", " ", "system", " ", "do", "?">>,
          <<"What", " ", "are", " ", "the", " ", "use", " ", "cases", "?">>,
          <<"Who", " ", "enters", " ", "data", "?">>,
          <<"Who", " ", "receives", " ", "data", "?">>>>)>>)

\* item["aspect"] and item["questions"] of every record, as the loops read them
AsQuestionsData(structure) ==
    [j \in 1..Len(structure.v) |->
        [aspect |-> GetItem(structure.v[j], KeyAspect).v,
         questions |-> [k \in 1..Len(GetItem(structure.v[j], KeyQuestions).v) |->
                            GetItem(structure.v[j], KeyQuestions).v[k].v]]]

\* total_q = sum(len(aspect.get("questions", [])) for aspect in ...)
RECURSIVE TotalQ(_, _)
TotalQ(structure, j) ==
    IF j > Len(structure.v) THEN 0
    ELSE (IF HasKey(structure.v[j], KeyQuestions)
          THEN Len(GetItem(structure.v[j], KeyQuestions).v) ELSE 0)
         + TotalQ(structure, j + 1)

total_q == TotalQ(current_questions_structure, 1)

Message(level, what) == <<level, what>>

(* inputs *)
SupportedExtensions == {".md", ".txt", ".docx"}
Documents ==
    [ext : SupportedExtensions \cup {".pdf"},
     decodable : BOOLEAN,
     convertible : BOOLEAN,
     content : {"empty", "headers", "plain"}]

DocChecklists == {DEFAULT_QUESTIONS_STRUCTURE, OneRecord, PyList(<<>>)}

InitDoc ==
    /\ ParseIdle
    /\ log = <<>>
    /\ QAIdle
    /\ FormatIdle
    /\ RunIdle
    /\ current_questions_structure \in DocChecklists
    /\ SidebarIdle
    /\ document \in Documents
    /\ dpc = "uploaded"
    /\ file_bytes = "none"
    /\ docs = "none"
    /\ backend_calls = <<>>
    /\ ui = <<>>

\* if not current_questions_structure or total_q == 0: the button is not shown
NoQuestionsWarning ==
    /\ dpc = "uploaded"
    /\ current_questions_structure.v = <<>> \/ total_q = 0
    /\ ui' = Append(ui, Message("warning", "question list is empty"))
    /\ dpc' = "end"
    /\ UNCHANGED <<parseVars, qaVars, fmtVars, runVars, sessionVars,
                   document, file_bytes, docs, backend_calls>>

\* the button: the bytes are taken, a DOCX is converted, another format refused
StartAnalysis ==
    /\ dpc = "uploaded"
    /\ ~(current_questions_structure.v = <<>> \/ total_q = 0)
    /\ IF document.ext = ".docx"
       THEN IF document.convertible
            THEN /\ file_bytes' = "utf8"
                 /\ ui' = Append(ui, Message("info", "DOCX converted"))
                 /\ dpc' = "indexing"
            ELSE /\ file_bytes' = IF document.decodable THEN "utf8" ELSE "undecodable"
                 /\ ui' = Append(ui, Message("error", "DOCX conversion failed"))
                 /\ dpc' = "stopped"
       ELSE IF document.ext \notin {".md", ".txt"}
            THEN /\ file_bytes' = IF document.decodable THEN "utf8" ELSE "undecodable"
                 /\ ui' = Append(ui, Message("error", "unsupported file format"))
                 /\ dpc' = "stopped"
            ELSE /\ file_bytes' = IF document.decodable THEN "utf8" ELSE "undecodable"
                 /\ ui' = ui
                 /\ dpc' = "indexing"
    /\ UNCHANGED <<parseVars, qaVars, fmtVars, runVars, sessionVars,
                   document, docs, backend_calls>>

\* a decoding that drops the bytes it cannot decode
SplitDocumentIgnoringErrors ==
    /\ dpc = "indexing"
    /\ \/ /\ document.content # "empty"
          /\ docs' = "chunks"
          /\ dpc' = "embedding"
          /\ ui' = ui
       \/ /\ docs' = "none"
          /\ dpc' = "indexed"
          /\ ui' = Append(ui, Message("error", "no chunks"))
    /\ UNCHANGED <<parseVars, qaVars, fmtVars, runVars, sessionVars,
                   document, file_bytes, backend_calls>>

\* setup_rag_pipeline_from_bytes up to the chunks: decode, split by headers,
\* split by characters when the first splitter gave nothing or raised
SplitDocument ==
    /\ dpc = "indexing"
    /\ IF file_bytes = "undecodable"
       THEN /\ docs' = "none"
            /\ dpc' = "indexed"
            /\ ui' = Append(ui, Message("error", "decoding failed"))
       ELSE \/ /\ document.content = "headers"
               /\ docs' = "chunks"
               /\ dpc' = "embedding"
               /\ ui' = ui
            \/ /\ document.content # "empty"
               /\ docs' = "chunks"
               /\ dpc' = "embedding"
               /\ ui' = Append(ui, Message("info", "CharacterTextSplitter is used"))
            \/ /\ document.content # "headers"
               /\ docs' = "none"
               /\ dpc' = "indexed"
               /\ ui' = ui \o <<Message("info", "CharacterTextSplitter is used"),
                                Message("error", "no chunks")>>
    /\ UNCHANGED <<parseVars, qaVars, fmtVars, runVars, sessionVars,
                   document, file_bytes, backend_calls>>

\* the rest of setup_rag_pipeline_from_bytes: the embeddings client, the
\* vector store (the chunks are sent to the embedding backend), the model and
\* the chain; each of the three can raise
BuildIndex ==
    /\ dpc = "embedding"
    /\ \/ /\ ui' = Append(ui, Message("error", "embeddings failed"))
          /\ UNCHANGED <<backend_calls, qa_chain>>
       \/ /\ backend_calls' = Append(backend_calls, "embed documents")
          /\ ui' = Append(ui, Message("error", "vector store failed"))
          /\ UNCHANGED qa_chain
       \/ /\ backend_calls' = Append(backend_calls, "embed documents")
          /\ ui' = Append(ui, Message("error", "model failed"))
          /\ UNCHANGED qa_chain
       \/ /\ backend_calls' = Append(backend_calls, "embed documents")
          /\ qa_chain' = TRUE
          /\ ui' = ui
    /\ dpc' = "indexed"
    /\ UNCHANGED <<parseVars, fmtVars, runVars, sessionVars, document, file_bytes, docs>>
    /\ UNCHANGED <<questions_data, qpc, ai, qi, processed_questions, results_by_aspect,
                   questions_processed_count, progress, calls>>

\* a handler that asks the questions whether or not there is a chain
AfterIndexAlways ==
    /\ dpc = "indexed"
    /\ ui' = Append(ui, Message("success", "index built"))
    /\ questions_data' = AsQuestionsData(current_questions_structure)
    /\ qpc' = "start"
    /\ dpc' = "answering"
    /\ UNCHANGED <<parseVars, fmtVars, runVars, sessionVars,
                   document, file_bytes, docs, backend_calls>>
    /\ UNCHANGED <<qa_chain, ai, qi, processed_questions, results_by_aspect,
                   questions_processed_count, progress, calls>>

\* if qa_chain: get_answers_for_structure is called with the session's
\* checklist; else the failure is reported
AfterIndex ==
    /\ dpc = "indexed"
    /\ IF qa_chain
       THEN /\ ui' = Append(ui, Message("success", "index built"))
            /\ questions_data' = AsQuestionsData(current_questions_structure)
            /\ qpc' = "start"
            /\ dpc' = "answering"
       ELSE /\ ui' = Append(ui, Message("error", "index was not created"))
            /\ dpc' = "end"
            /\ UNCHANGED <<questions_data, qpc>>
    /\ UNCHANGED <<parseVars, fmtVars, runVars, sessionVars,
                   document, file_bytes, docs, backend_calls>>
    /\ UNCHANGED <<qa_chain, ai, qi, processed_questions, results_by_aspect,
                   questions_processed_count, progress, calls>>

\* if answers_data: the report is formatted and shown
ShowReport ==
    /\ dpc = "answering"
    /\ qpc = "done"
    /\ IF results_by_aspect # <<>>
       THEN /\ results_data' = results_by_aspect
            /\ markdown_output' = format_results_to_markdown(results_by_aspect)
            /\ fpc' = "formatted"
            /\ ui' = Append(ui, Message("success", "analysis finished"))
       ELSE /\ ui' = Append(ui, Message("info", "nothing to show"))
            /\ UNCHANGED fmtVars
    /\ dpc' = "end"
    /\ UNCHANGED <<parseVars, qaVars, runVars, sessionVars,
                   document, file_bytes, docs, backend_calls>>

NextDoc ==
    \/ NoQuestionsWarning
    \/ StartAnalysis
    \/ SplitDocument
    \/ BuildIndex
    \/ AfterIndex
    \/ BeginAspect
    \/ ReportProgress
    \/ AnswerQuestion
    \/ EndAspect
    \/ Finish
    \/ ShowReport

SpecDoc == InitDoc /\ [][NextDoc]_vars

----------------------------------------------------------------------------
(* Properties of get_aspects and of the crew built over its result *)

AfterParse == {"parsed", "crew_built", "crew_raised"}
ParseReturned == pc \in AfterParse
ParseEnded == pc # "start"

\* a list of mappings each having 'aspect' and a sequence 'questions'
StructurallyValid(x) ==
    /\ x.t = "list"
    /\ \A j \in 1..Len(x.v) :
        /\ x.v[j].t = "dict"
        /\ HasKey(x.v[j], KeyAspect)
        /\ HasKey(x.v[j], KeyQuestions)
        /\ GetItem(x.v[j], KeyQuestions).t \in {"list", "tuple"}

\* the empty string, text that is no literal, or a literal of the wrong shape
MalformedInput(s) ==
    LET r == literal_eval(Strip(s)) IN
    r.k # "ok" \/ ~StructurallyValid(r.v)

IsFallback(x) == PyEq(x, FallbackChecklist)

\* C1: for every malformed input text get_aspects does not raise and returns
\* a non-empty, structurally valid Checklist.
C1_FallbackTotality ==
    (ParseEnded /\ MalformedInput(raw)) =>
        /\ pc # "raised"
        /\ aspects.t = "list" /\ aspects.v # <<>>
        /\ StructurallyValid(aspects)

\* C2: a value returned without falling back is a list of mappings that each
\* have 'aspect' and a sequence 'questions'; a parsed value that is not is
\* replaced by the fallback.
C2_ValidatedOrFallback ==
    ParseReturned =>
        /\ log = <<>> => StructurallyValid(aspects)
        /\ MalformedInput(raw) => IsFallback(aspects)

\* C3: a well-formed checklist rendered to its literal text and parsed by
\* get_aspects comes back equal, record by record and question by question,
\* and the fallback branch is not taken.
C3_RoundTrip ==
    (ParseReturned /\ original.t = "list") =>
        PyEq(aspects, original) /\ log = <<>>

C3_Witness ==
    /\ pc = "parsed"
    /\ raw[1] = " "
    /\ PyEq(original,
            PyList(<<AspectRecord(QuoteText, <<EscapesText, <<>>, BracketsText>>),
                     AspectRecord(EscapesText, <<QuoteText, BothQuotesText>>)>>))

\* the parse raised one of the caught errors or the value is no list of dicts
FailedToParseOrValidate(s) ==
    LET r == literal_eval(Strip(s)) IN
    \/ r.k \in {"ValueError", "SyntaxError"}
    \/ r.k = "ok" /\ ~IsListOfDicts(r.v)

QuestionCount(x) == Len(GetItem(x, KeyQuestions).v)

\* C4: whenever get_aspects fails to parse or validate its input, what it
\* returns is the one fixed fallback: three aspects in the fixed order, five
\* questions each, whatever the input and the kind of failure.
C4_FixedFallback ==
    (ParseReturned /\ (log # <<>> \/ FailedToParseOrValidate(raw))) =>
        /\ IsFallback(aspects)
        /\ log # <<>>
        /\ Len(aspects.v) = 3
        /\ \A j \in 1..3 : QuestionCount(aspects.v[j]) = 5

C4_Witness ==
    pc = "parsed" /\ raw = TextNotAList /\ log # <<>> /\ IsFallback(aspects)

\* C5: the result of get_aspects is the whole parsed list, unchanged, or the
\* whole fallback; a list with a valid record and an element that is no
\* mapping yields the whole fallback.
C5_AllOrNothing ==
    ParseReturned =>
        LET r == literal_eval(Strip(raw)) IN
        /\ IsFallback(aspects) \/ (r.k = "ok" /\ PyEq(aspects, r.v))
        /\ (r.k = "ok" /\ r.v.t = "list"
              /\ \E j \in 1..Len(r.v.v) : r.v.v[j].t # "dict")
              => IsFallback(aspects)

C5_Witness ==
    pc = "parsed" /\ raw = TextMixed /\ IsFallback(aspects)

\* C6: building the fan-out crew over any Checklist get_aspects returned
\* completes without raising.
C6_CrewBuilds == pc # "crew_raised"

\* the tree has a node ast.literal_eval rejects: a name, a call other than
\* set(), an attribute reference or a subscription
RECURSIVE HasRejectedNode(_)
HasRejectedNode(node) ==
    CASE node.n = "Constant" -> FALSE
      [] node.n \in {"List", "Tuple", "Set"} ->
            \E j \in 1..Len(node.v) : HasRejectedNode(node.v[j])
      [] node.n = "Dict" ->
            \/ \E j \in 1..Len(node.v) : HasRejectedNode(node.v[j])
            \/ \E j \in 1..Len(node.w) : HasRejectedNode(node.w[j])
      [] node.n = "Call" ->
            ~(node.v.n = "Name" /\ node.v.v = <<"set">> /\ node.w = <<>>)
      [] OTHER -> TRUE

\* the tree is made of strings, numbers, lists and mappings only
RECURSIVE IsPlainLiteral(_)
IsPlainLiteral(node) ==
    CASE node.n = "Constant" -> node.v.t \in {"str", "int"}
      [] node.n = "List" -> \A j \in 1..Len(node.v) : IsPlainLiteral(node.v[j])
      [] node.n = "Dict" ->
            /\ \A j \in 1..Len(node.v) : IsPlainLiteral(node.v[j])
            /\ \A j \in 1..Len(node.w) : IsPlainLiteral(node.w[j])
      [] OTHER -> FALSE

NotPlainLiteral(s) ==
    LET p == Parse(Strip(s)) IN ~p.ok \/ ~IsPlainLiteral(p.node)

NotALiteral(s) ==
    LET p == Parse(Strip(s)) IN ~p.ok \/ HasRejectedNode(p.node)

----------------------------------------------------------------------------
(* Properties of get_answers_for_structure *)

RECURSIVE FlatPairs(_)
FlatPairs(results) ==
    IF results = <<>> THEN <<>>
    ELSE Head(results).qa_pairs \o FlatPairs(Tail(results))

RECURSIVE FlatQuestions(_)
FlatQuestions(data) ==
    IF data = <<>> THEN <<>>
    ELSE Head(data).questions \o FlatQuestions(Tail(data))

Answered == qpc = "done" /\ qa_chain

\* C8: when the backend call for a question raises the loop goes on: every
\* question of the checklist is asked and has its pair in the result, and the
\* answers equal to the error marker are exactly those of the questions whose
\* call raised.
C8_FaultIsolation ==
    (Answered /\ total_questions_count > 0) =>
        LET pairs == FlatPairs(results_by_aspect) IN
        /\ Len(calls) = total_questions_count
        /\ Len(pairs) = total_questions_count
        /\ \A j \in 1..Len(pairs) :
            /\ pairs[j].question = FlatQuestions(questions_data)[j]
            /\ pairs[j].answer = ERROR_ANSWER_MARKDOWN <=> calls[j].kind = "raise"

C8_Witness ==
    /\ Answered
    /\ Len(calls) = 4
    /\ calls[2].kind = "raise"
    /\ \A j \in {1, 3, 4} : calls[j].kind = "ok"
    /\ FlatPairs(results_by_aspect)[2].answer = ERROR_ANSWER_MARKDOWN
    /\ FlatPairs(results_by_aspect)[3].answer = <<"Yes", ",", " ", "AES", ".">>

\* C9: a response that is empty once trimmed or that holds the not-found
\* phrase is recorded as exactly the not-found marker, and no recorded answer
\* is the empty string.
C9_NotFoundPropagation ==
    LET pairs == FlatPairs(results_by_aspect) \o processed_questions IN
    /\ \A j \in 1..Len(pairs) : pairs[j].answer # <<>>
    /\ Answered =>
        \A j \in 1..Len(pairs) :
            (/\ j <= Len(calls)
             /\ calls[j].kind = "ok"
             /\ \/ Strip(calls[j].text) = <<>>
                \/ ContainsText(calls[j].text, NO_INFORMATION_FOUND_TEXT))
            => pairs[j].answer = NO_INFORMATION_FOUND_MARKDOWN

C9_Witness ==
    /\ Answered
    /\ Len(calls) = 3
    /\ calls[1] = BackendReturns(<<" ", NL>>)
    /\ calls[2] = BackendReturns(<<"Sorry", ".", " ">> \o NO_INFORMATION_FOUND_TEXT)
    /\ calls[3] = BackendReturns(<<>>)
    /\ \A j \in 1..3 :
        FlatPairs(results_by_aspect)[j].answer = NO_INFORMATION_FOUND_MARKDOWN

\* one result per aspect and one pair per question, in order, texts unchanged
SameShape(results, data) ==
    /\ Len(results) = Len(data)
    /\ \A j \in 1..Len(data) :
        /\ results[j].aspect = data[j].aspect
        /\ Len(results[j].qa_pairs) = Len(data[j].questions)
        /\ \A k \in 1..Len(data[j].questions) :
            results[j].qa_pairs[k].question = data[j].questions[k]

\* C10 as stated: with a built index the result has, for every checklist, one
\* AspectResult per aspect and one QAPair per question, in checklist order.
C10_OneResultPerAspect ==
    Answered => SameShape(results_by_aspect, questions_data)

\* C10, amended: with a built index and a checklist of at least one question
\* the result has one AspectResult per aspect (also for an aspect without
\* questions) and one QAPair per question, in order and with the texts
\* unchanged, whatever the backend does; for a checklist without any question
\* the result is the empty sequence.
C10_ShapeOfAnswers ==
    Answered =>
        IF total_questions_count > 0
        THEN SameShape(results_by_aspect, questions_data)
        ELSE results_by_aspect = <<>>

C10_Witness ==
    /\ Answered
    /\ Len(questions_data) = 2
    /\ Len(questions_data[1].questions) = 0
    /\ Len(questions_data[2].questions) = 2
    /\ calls[1].kind = "raise"
    /\ Len(results_by_aspect) = 2

\* the last value handed to the progress bar
LastProgress == progress[Len(progress)]

\* C11 as stated: each reported progress value is (questions already
\* answered) / (total questions); the values rise strictly, stay within
\* [0, 1] and the last one is 1.
C11_ProgressIsAnswered ==
    /\ qpc = "asking" => LastProgress = <<Len(calls), total_questions_count>>
    /\ \A k \in 1..Len(progress) : progress[k][1] <= progress[k][2]
    /\ \A k \in 2..Len(progress) : progress[k - 1][1] < progress[k][1]
    /\ (Answered /\ total_questions_count > 0) => LastProgress[1] = LastProgress[2]

\* C11, amended: the k-th reported value is k / total, handed to the
\* progress bar before the k-th question is asked, when k - 1 questions have
\* been answered; the values rise strictly, stay within (0, 1], and the last
\* one is 1 and is reported before the last question is answered.
C11_ProgressIsQuestionIndex ==
    /\ \A k \in 1..Len(progress) :
        /\ progress[k] = <<k, total_questions_count>>
        /\ 0 < k /\ k <= total_questions_count
    /\ questions_processed_count = Len(progress)
    /\ Len(progress) = Len(calls) + (IF qpc = "asking" THEN 1 ELSE 0)
    /\ (Answered /\ total_questions_count > 0) =>
            LastProgress = <<total_questions_count, total_questions_count>>

C11_Witness ==
    /\ qpc = "asking"
    /\ total_questions_count = 4
    /\ Len(calls) = 3
    /\ progress = <<<<1, 4>>, <<2, 4>>, <<3, 4>>, <<4, 4>>>>

----------------------------------------------------------------------------
(* Properties of format_results_to_markdown *)

\* the lines of a text: the runs between line breaks
LineBreaks(text) == {i \in 1..Len(text) : text[i] = NL}

\* the position of the k-th line break; 0 for k = 0
LineBreak(text, k) ==
    IF k = 0 THEN 0
    ELSE CHOOSE p \in LineBreaks(text) :
            Cardinality({i \in LineBreaks(text) : i <= p}) = k

Lines(text) ==
    LET n == Cardinality(LineBreaks(text))
        ended == [k \in 1..n |->
                    SubSeq(text, LineBreak(text, k - 1) + 1, LineBreak(text, k) - 1)]
        rest == SubSeq(text, LineBreak(text, n) + 1, Len(text))
    IN IF rest = <<>> THEN ended ELSE Append(ended, rest)

\* a Markdown table row: a line from one delimiter to another
IsTableRow(line) == Len(line) >= 2 /\ line[1] = PIPE /\ line[Len(line)] = PIPE

\* the delimiters of a line that no backslash escapes
CellDelimiters(line) ==
    {j \in 1..Len(line) : line[j] = PIPE /\ (j = 1 \/ line[j - 1] # BS)}

CellCount(line) == Cardinality(CellDelimiters(line)) - 1

\* the question with a backslash put before each of its delimiters
Backslashed(q) ==
    LET before(j) == Cardinality({i \in 1..j : q[i] = PIPE})
        n == Len(q) + before(Len(q))
        src(m) == CHOOSE j \in 1..Len(q) : j + before(j) = m \/ (q[j] = PIPE /\ j + before(j) - 1 = m)
    IN [m \in 1..n |->
            IF q[src(m)] = PIPE /\ src(m) + before(src(m)) - 1 = m THEN BS ELSE q[src(m)]]

Formatted == fpc = "formatted"

AllPairs(results) == FlatPairs(results)

\* C12: a QAPair whose question holds the table delimiter is rendered as
\* exactly one table row of exactly two cells, each delimiter of the question
\* with a backslash before it.
C12_QuestionEscaped ==
    Formatted =>
        \A k \in 1..Len(AllPairs(results_data)) :
            LET pair == AllPairs(results_data)[k]
                text == TableRowText(pair)
            IN  Contains(pair.question, PIPE) =>
                    /\ ContainsText(markdown_output, text)
                    /\ ContainsText(text, Backslashed(pair.question))
                    /\ Len(Lines(text)) = 1
                    /\ IsTableRow(Lines(text)[1])
                    /\ CellCount(Lines(text)[1]) = 2

IsHeadingLine(line) == Len(line) >= 3 /\ SubSeq(line, 1, 3) = <<"#", "#", " ">>

IsDataRow(line) ==
    IsTableRow(line) /\ line # TableHeaderLine /\ line # TableSeparatorLine

\* C13: the output has, per aspect and in input order, one level-2 heading
\* with the aspect name, one two-column table header and exactly one table
\* row per QAPair in input order, and it is a function of the input.
C13_OneRowPerPair ==
    Formatted =>
        LET lines == Lines(markdown_output)
            rows == SelectSeq(lines, IsDataRow)
            pairs == AllPairs(results_data)
        IN
        /\ markdown_output = format_results_to_markdown(results_data)
        /\ SelectSeq(lines, IsHeadingLine) =
                [j \in 1..Len(results_data) |-> <<"#", "#", " ">> \o results_data[j].aspect]
        /\ Len(SelectSeq(lines, LAMBDA l : l = TableHeaderLine)) = Len(results_data)
        /\ Len(rows) = Len(pairs)
        /\ \A k \in 1..Len(pairs) :
                k <= Len(rows) => ContainsText(rows[k], Backslashed(pairs[k].question))

----------------------------------------------------------------------------
(* Properties of req_details_crew *)

\* C14: for a Checklist of N records req_details_crew builds N expert agents
\* and N expert tasks, the i-th made from the i-th record's aspect name and
\* questions, then one merge task, placed last, whose context is exactly the
\* N expert tasks in checklist order.
C14_FanOutShape ==
    /\ (original.t = "list" /\ pc \notin {"start", "parsed"}) => pc = "crew_built"
    /\ pc = "crew_built" =>
        LET N == Len(aspects.v) IN
        /\ Len(crew.agents) = N + 1
        /\ Len(crew.tasks) = N + 1
        /\ \A i \in 1..N :
            /\ crew.agents[i] = Agent("expert", Str(GetItem(aspects.v[i], KeyAspect)))
            /\ crew.tasks[i].kind = "expert"
            /\ crew.tasks[i].aspect = Str(GetItem(aspects.v[i], KeyAspect))
            /\ crew.tasks[i].questions = Repr(GetItem(aspects.v[i], KeyQuestions))
            /\ original.t = "list" => ContainsText(raw, crew.tasks[i].questions)
            /\ crew.tasks[i].agent = crew.agents[i]
        /\ crew.agents[N + 1].kind = "builder"
        /\ crew.tasks[N + 1].kind = "merge"
        /\ crew.tasks[N + 1].context = SubSeq(crew.tasks, 1, N)

C14_Witness ==
    /\ pc = "crew_built"
    /\ original.t = "list"
    /\ Len(aspects.v) = 2
    /\ crew.tasks[1].aspect = QuoteText
    /\ crew.tasks[2].aspect = PlainText
    /\ Len(crew.tasks[3].context) = 2

----------------------------------------------------------------------------
(* Properties of run *)

StageNames == [k \in 1..Len(trace) |-> trace[k].stage]

\* the order of a complete run over a crew of n tasks
RunOrder(n) ==
    <<"methodology", "get_aspects", "req_details_crew">>
        \o [k \in 1..n |-> "task"] \o <<"get_aspects">>

IsPrefix(s, t) == Len(s) <= Len(t) /\ s = SubSeq(t, 1, Len(s))

\* C15: the stages of a run happen in the order methodology, parse of its
\* output, fan-out and merge crew over the parsed Checklist, parse of the
\* merged output; no task starts before the first parse has returned, and the
\* final Checklist is the result of the second parse.
C15_StageOrder ==
    /\ pc # "run_start" => IsPrefix(StageNames, RunOrder(Len(crew.tasks)))
    /\ \A k \in 1..Len(trace) :
        /\ trace[k].stage = "req_details_crew" =>
            /\ trace[k - 1].outcome = "returned"
            /\ get_aspects(trace[k - 1].arg).k = "return"
            /\ PyEq(trace[k].arg, get_aspects(trace[k - 1].arg).v)
        /\ trace[k].stage = "task" =>
            /\ trace[k].arg = k - 3
            /\ trace[2].stage = "get_aspects" /\ trace[2].outcome = "returned"
        /\ (trace[k].stage = "get_aspects" /\ k > 2) =>
            /\ trace[k - 1] = Stage("task", Len(crew.tasks), "returned")
            /\ trace[k].arg = outputs[Len(outputs)]
    /\ pc = "run_done" =>
        /\ StageNames = RunOrder(Len(crew.tasks))
        /\ PyEq(aspects, get_aspects(trace[Len(trace)].arg).v)

C15_Witness ==
    /\ pc = "run_done"
    /\ Len(trace) = 7
    /\ PyEq(trace[3].arg, TwoRecords)
    /\ PyEq(aspects, OneRecord)

\* C16: when the methodology crew raises, run raises a wrapped error and
\* neither the parser nor the second crew is entered; when the fan-out and
\* merge crew raises, run raises a wrapped error and no final Checklist is
\* made; the fallback is substituted in neither case.
C16_FatalStageFailure ==
    \A k \in 1..Len(trace) :
        (trace[k].outcome = "raised" /\ trace[k].stage # "get_aspects") =>
            /\ k = Len(trace)
            /\ pc = "run_raised"
            /\ exc = WRAPPED
            /\ trace[k].stage = "methodology" =>
                /\ Len(trace) = 1
                /\ aspects = PyNone
                /\ log = <<>>
            /\ trace[k].stage \in {"req_details_crew", "task"} =>
                /\ \A j \in 3..Len(trace) : trace[j].stage # "get_aspects"
                /\ PyEq(aspects, get_aspects(trace[2].arg).v)
                /\ log = get_aspects(trace[2].arg).printed

C16_Witness ==
    /\ pc = "run_raised"
    /\ exc = WRAPPED
    /\ Len(trace) = 5
    /\ trace[5] = Stage("task", 2, "raised")
    /\ PyEq(aspects, TwoRecords)

----------------------------------------------------------------------------
(* Properties of the document analysis handler *)

\* the document cannot be decoded, has an unsupported extension, or is a DOCX
\* that cannot be converted
Unreadable(d) ==
    \/ d.ext \in {".md", ".txt"} /\ ~d.decodable
    \/ d.ext \notin SupportedExtensions
    \/ d.ext = ".docx" /\ ~d.convertible

QAStageNotEntered ==
    /\ qpc = "idle"
    /\ questions_data = <<>>
    /\ results_by_aspect = <<>>
    /\ calls = <<>>

NoReport == fpc = "idle" /\ markdown_output = <<>>

HasError(what) == \E k \in 1..Len(ui) : ui[k] = Message("error", what)

\* the analysis button was shown and pressed
AnalysisStarted ==
    /\ dpc # "uploaded"
    /\ \A k \in 1..Len(ui) : ui[k] # Message("warning", "question list is empty")

\* C17: for a document that cannot be decoded, has an unsupported extension
\* or fails its DOCX conversion, no call to the embedding or answering
\* backend is made, no index is built and no question is answered; the
\* handler halts with the error reported.
C17_FailFast ==
    (dpc # "idle" /\ Unreadable(document)) =>
        /\ backend_calls = <<>>
        /\ ~qa_chain
        /\ docs = "none"
        /\ QAStageNotEntered
        /\ NoReport
        /\ dpc \in {"uploaded", "indexing", "indexed", "stopped", "end"}
        /\ (dpc \in {"indexed", "stopped", "end"} /\ AnalysisStarted) =>
            \/ HasError("decoding failed")
            \/ HasError("unsupported file format")
            \/ HasError("DOCX conversion failed")

C17_Witness ==
    /\ dpc = "end"
    /\ document.ext = ".txt"
    /\ ~document.decodable
    /\ document.content = "headers"
    /\ HasError("decoding failed")
    /\ backend_calls = <<>>

IndexBuildFailed ==
    \/ HasError("no chunks")
    \/ HasError("embeddings failed")
    \/ HasError("vector store failed")
    \/ HasError("model failed")

\* C18: when index building gives no usable index (no chunks from either
\* splitter, or a failure creating the embeddings, the vector store or the
\* model), get_answers_for_structure is not called, no report is made and
\* an error is reported.
C18_NoIndexNoQA ==
    IndexBuildFailed =>
        /\ ~qa_chain
        /\ QAStageNotEntered
        /\ NoReport
        /\ dpc \in {"indexed", "end"}
        /\ dpc = "end" => HasError("index was not created")

C18_Witness ==
    /\ dpc = "end"
    /\ HasError("vector store failed")
    /\ HasError("index was not created")
    /\ backend_calls = <<"embed documents">>
    /\ QAStageNotEntered

----------------------------------------------------------------------------
(* json.load: the scanner.  Modelled: strings in double quotes with the     *)
(* escapes \" \\ \/ \n \t \r, integers with an optional minus sign, null,   *)
(* the brackets, comma and colon, white space between tokens.  Not          *)
(* modelled, and absent from the files below: true, false, NaN, Infinity,   *)
(* fractions and exponents, the escapes \b \f \uXXXX.                       *)

TAB == "\t"
CR == "\r"
JsonWs == {" ", NL, TAB, CR}
JLexFail == [ok |-> FALSE, toks |-> <<>>]

\* the first position from i on that holds no white space
JSkip(s, i) ==
    IF \E j \in i..Len(s) : s[j] \notin JsonWs
    THEN CHOOSE j \in i..Len(s) :
            s[j] \notin JsonWs /\ \A m \in i..(j - 1) : s[m] \in JsonWs
    ELSE Len(s) + 1

\* py_scanstring, strict: the body of a string from position i
RECURSIVE JLexString(_, _, _)
JLexString(s, i, acc) ==
    IF i > Len(s) THEN [ok |-> FALSE, v |-> acc, next |-> i]
    ELSE LET c == s[i] IN
        IF c = DQ THEN [ok |-> TRUE, v |-> acc, next |-> i + 1]
        ELSE IF c \in {NL, TAB, CR} THEN [ok |-> FALSE, v |-> acc, next |-> i]
        ELSE IF c = BS THEN
            IF i + 1 > Len(s) THEN [ok |-> FALSE, v |-> acc, next |-> i]
            ELSE LET d == s[i + 1] IN
                CASE d \in {DQ, BS, "/"} -> JLexString(s, i + 2, Append(acc, d))
                  [] d = "n" -> JLexString(s, i + 2, Append(acc, NL))
                  [] d = "t" -> JLexString(s, i + 2, Append(acc, TAB))
                  [] d = "r" -> JLexString(s, i + 2, Append(acc, CR))
                  [] OTHER -> [ok |-> FALSE, v |-> acc, next |-> i]
        ELSE JLexString(s, i + 1, Append(acc, c))

\* NUMBER_RE: 0, or a digit other than 0 and the digits after it
JLexNumber(s, i) ==
    IF s[i] = "0" THEN [v |-> 0, next |-> i + 1] ELSE LexNumber(s, i, 0)

RECURSIVE JLex(_, _, _)
JLex(s, i0, acc) ==
    LET i == JSkip(s, i0) IN
    IF i > Len(s) THEN [ok |-> TRUE, toks |-> acc]
    ELSE LET c == s[i] IN
        CASE c = DQ ->
                LET r == JLexString(s, i + 1, <<>>) IN
                IF r.ok THEN JLex(s, r.next, Append(acc, Tok("str", r.v)))
                ELSE JLexFail
          [] c \in Digits ->
                LET r == JLexNumber(s, i) IN
                JLex(s, r.next, Append(acc, Tok("num", r.v)))
          [] c = "-" ->
                IF i + 1 <= Len(s) /\ s[i + 1] \in Digits
                THEN LET r == JLexNumber(s, i + 1) IN
                     JLex(s, r.next, Append(acc, Tok("num", 0 - r.v)))
                ELSE JLexFail
          [] c = "null" -> JLex(s, i + 1, Append(acc, Tok("null", <<>>)))
          [] c \in {"[", "]", "{", "}", ",", ":"} ->
                JLex(s, i + 1, Append(acc, Tok("op", c)))
          [] OTHER -> JLexFail

(* json.load: the decoder (JSONObject, JSONArray and scan_once), one token  *)
(* at a time.  The state holds a stack of the open arrays and objects, each *)
(* with what was read so far (the pairs of an object; key is the name       *)
(* awaiting its value), and the value just read (cur, when have).           *)

JFrame(kind) == [kind |-> kind, elts |-> <<>>, key |-> PyNone, hasKey |-> FALSE]
JState(stack, cur, have) == [ok |-> TRUE, stack |-> stack, cur |-> cur, have |-> have]
JFail == [ok |-> FALSE, stack |-> <<>>, cur |-> PyNone, have |-> FALSE]

\* a string, a number or null; an object takes only strings as names
JOnValue(st, x) ==
    LET f == TopFrame(st) IN
    IF st.have \/ (f.kind = "dict" /\ ~f.hasKey /\ x.t # "str") THEN JFail
    ELSE JState(st.stack, x, TRUE)

JOnOpen(st, c) ==
    LET f == TopFrame(st) IN
    IF st.have \/ (f.kind = "dict" /\ ~f.hasKey) THEN JFail
    ELSE JState(Append(st.stack, JFrame(IF c = "[" THEN "list" ELSE "dict")),
                PyNone, FALSE)

JOnComma(st) ==
    LET f == TopFrame(st) IN
    IF ~st.have THEN JFail
    ELSE IF f.kind = "list"
        THEN JState(WithTop(st, [f EXCEPT !.elts = Append(@, st.cur)]), PyNone, FALSE)
    ELSE IF f.kind = "dict" /\ f.hasKey
        THEN JState(WithTop(st, [f EXCEPT !.elts = SetItem(@, f.key, st.cur),
                                          !.hasKey = FALSE]), PyNone, FALSE)
    ELSE JFail

JOnColon(st) ==
    LET f == TopFrame(st) IN
    IF st.have /\ f.kind = "dict" /\ ~f.hasKey
    THEN JState(WithTop(st, [f EXCEPT !.key = st.cur, !.hasKey = TRUE]), PyNone, FALSE)
    ELSE JFail

\* the value a closed bracket stands for; a trailing comma, a name without a
\* value and a bracket of the other kind are errors
JOnClose(st, c) ==
    LET f == TopFrame(st)
        rest == SubSeq(st.stack, 1, Len(st.stack) - 1)
    IN
    IF f.kind = "list" /\ c = "]" THEN
        IF st.have THEN JState(rest, PyList(Append(f.elts, st.cur)), TRUE)
        ELSE IF f.elts = <<>> THEN JState(rest, PyList(<<>>), TRUE)
        ELSE JFail
    ELSE IF f.kind = "dict" /\ c = "}" THEN
        IF st.have /\ f.hasKey
            THEN JState(rest, PyDict(SetItem(f.elts, f.key, st.cur)), TRUE)
        ELSE IF ~st.have /\ ~f.hasKey /\ f.elts = <<>>
            THEN JState(rest, PyDict(<<>>), TRUE)
        ELSE JFail
    ELSE JFail

JParseToken(st, t) ==
    CASE t.k = "str" -> JOnValue(st, PyStr(t.v))
      [] t.k = "num" -> JOnValue(st, PyInt(t.v))
      [] t.k = "null" -> JOnValue(st, PyNone)
      [] t.k = "op" /\ t.v \in {"[", "{"} -> JOnOpen(st, t.v)
      [] t.k = "op" /\ t.v \in {"]", "}"} -> JOnClose(st, t.v)
      [] t.k = "op" /\ t.v = "," -> JOnComma(st)
      [] t.k = "op" /\ t.v = ":" -> JOnColon(st)

RECURSIVE JParseRun(_, _, _)
JParseRun(T, i, st) ==
    IF ~st.ok \/ i > Len(T) THEN st
    ELSE JParseRun(T, i + 1, JParseToken(st, T[i]))

\* the value read when the tokens end: one value and nothing open
JParseEnd(st) ==
    IF st.ok /\ Len(st.stack) = 1 /\ st.have
    THEN [ok |-> TRUE, v |-> st.cur]
    ELSE [ok |-> FALSE, v |-> PyNone]

JParse(l) ==
    IF l.ok
    THEN JParseEnd(JParseRun(l.toks, 1, JState(<<JFrame("top")>>, PyNone, FALSE)))
    ELSE [ok |-> FALSE, v |-> PyNone]

\* json.loads(text): [ok, v], ok FALSE for JSONDecodeError
json_loads(s) == JParse(JLex(s, 1, <<>>))

(* json.dumps(value, indent=4, ensure_ascii=False)                          *)

\* only the double quote is escaped
RECURSIVE JEscapeQuotesOnly(_)
JEscapeQuotesOnly(s) ==
    IF s = <<>> THEN <<>>
    ELSE (IF Head(s) = DQ THEN <<BS, DQ>> ELSE <<Head(s)>>)
         \o JEscapeQuotesOnly(Tail(s))

\* ESCAPE: the characters json.dumps writes with a backslash
RECURSIVE JEscape(_)
JEscape(s) ==
    IF s = <<>> THEN <<>>
    ELSE LET c == Head(s) IN
        (CASE c = DQ -> <<BS, DQ>>
           [] c = BS -> <<BS, BS>>
           [] c = NL -> <<BS, "n">>
           [] c = TAB -> <<BS, "t">>
           [] c = CR -> <<BS, "r">>
           [] OTHER -> <<c>>) \o JEscape(Tail(s))

JStr(s) == <<DQ>> \o JEscape(s) \o <<DQ>>
JInt(n) == IF n < 0 THEN <<"-">> \o IntText(0 - n) ELSE IntText(n)
JIndent(level) == [j \in 1..(4 * level) |-> " "]

\* the name an object key is written as; a key json cannot write is TypeError
JKey(k) ==
    CASE k.t = "str" -> [ok |-> TRUE, text |-> JStr(k.v)]
      [] k.t = "int" -> [ok |-> TRUE, text |-> <<DQ>> \o JInt(k.v) \o <<DQ>>]
      [] k.t = "none" -> [ok |-> TRUE, text |-> <<DQ, "null", DQ>>]
      [] OTHER -> [ok |-> FALSE, text |-> <<>>]

JDumped(text) == [ok |-> TRUE, text |-> text]
JDumpFail == [ok |-> FALSE, text |-> <<>>]

\* one more item of a list or an object: separator, line break, indentation,
\* the item (with its name in an object), then the items after it
JItem(j, level, name, r, rest) ==
    IF name.ok /\ r.ok /\ rest.ok
    THEN JDumped((IF j > 1 THEN <<",">> ELSE <<>>) \o <<NL>> \o JIndent(level)
                 \o name.text \o r.text \o rest.text)
    ELSE JDumpFail

\* the brackets around the items, the closing one on a line of its own
JBracket(open, items, level, close) ==
    IF items.ok
    THEN JDumped(<<open>> \o items.text \o <<NL>> \o JIndent(level) \o <<close>>)
    ELSE JDumpFail

JNamed(name) ==
    IF name.ok THEN JDumped(name.text \o <<":", " ">>) ELSE JDumpFail

RECURSIVE JDump(_, _)
RECURSIVE JDumpList(_, _, _)
RECURSIVE JDumpDict(_, _, _)

\* the items of a list or tuple from the j-th on, one per line
JDumpList(xs, j, level) ==
    IF j > Len(xs) THEN JDumped(<<>>)
    ELSE JItem(j, level, JDumped(<<>>), JDump(xs[j], level),
               JDumpList(xs, j + 1, level))

JDumpDict(kvs, j, level) ==
    IF j > Len(kvs) THEN JDumped(<<>>)
    ELSE JItem(j, level, JNamed(JKey(kvs[j][1])), JDump(kvs[j][2], level),
               JDumpDict(kvs, j + 1, level))

JDump(x, level) ==
    CASE x.t = "str" -> JDumped(JStr(x.v))
      [] x.t = "int" -> JDumped(JInt(x.v))
      [] x.t = "none" -> JDumped(<<"null">>)
      [] x.t \in {"list", "tuple"} ->
            IF x.v = <<>> THEN JDumped(<<"[", "]">>)
            ELSE JBracket("[", JDumpList(x.v, 1, level + 1), level, "]")
      [] x.t = "dict" ->
            IF x.v = <<>> THEN JDumped(<<"{", "}">>)
            ELSE JBracket("{", JDumpDict(x.v, 1, level + 1), level, "}")
      [] OTHER -> JDumpFail

\* json.dumps(value, indent=4, ensure_ascii=False): [ok, text], ok FALSE for
\* TypeError
json_dumps(x) == JDump(x, 0)

----------------------------------------------------------------------------
(* validate_questions_structure (st_app.py) *)

IsQuestionsItem(item) ==
    /\ item.t = "dict"
    /\ HasKey(item, KeyAspect)
    /\ HasKey(item, KeyQuestions)
    /\ GetItem(item, KeyAspect).t = "str"
    /\ GetItem(item, KeyQuestions).t = "list"
    /\ \A j \in 1..Len(GetItem(item, KeyQuestions).v) :
          GetItem(item, KeyQuestions).v[j].t = "str"

validate_questions_structure(data) ==
    /\ data.t = "list"
    /\ \A j \in 1..Len(data.v) : IsQuestionsItem(data.v[j])

----------------------------------------------------------------------------
(* The sidebar of the page (st_app.py, 214-279).  Every action of the user  *)
(* runs the script from the top: the file held by the uploader is read      *)
(* again, then the generation button, the download text and the reset       *)
(* button are handled, in that order.                                       *)

\* bool(x) of what generate_questions returns
Truthy(x) == x.t = "list" /\ x.v # <<>>

Handled(structure, messages) == [structure |-> structure, messages |-> messages]

\* json.load returned, the validation is left out
UploadDecodedUnvalidated(current, loaded) ==
    IF ~loaded.ok
        THEN Handled(current, <<Message("error", "JSON decoding error")>>)
    ELSE Handled(loaded.v, <<Message("success", "questions file applied")>>)

\* what follows json.load: if validate_questions_structure(questions_data),
\* the session takes the data; except json.JSONDecodeError, an error
UploadDecoded(current, loaded) ==
    IF ~loaded.ok
        THEN Handled(current, <<Message("error", "JSON decoding error")>>)
    ELSE IF validate_questions_structure(loaded.v)
        THEN Handled(loaded.v, <<Message("success", "questions file applied")>>)
    ELSE Handled(current, <<Message("error", "wrong JSON structure")>>)

\* if uploaded_questions_file is not None: json.load, validate, replace;
\* bytes that are not UTF-8 leave json.load by the last except clause
UploadHandler(current, file) ==
    IF file = NoFile THEN Handled(current, <<>>)
    ELSE IF ~file.decodable
        THEN Handled(current, <<Message("error", "questions file not read")>>)
    ELSE UploadDecoded(current, json_loads(file.text))

\* a generate_questions that returns what the crew gave, unvalidated
generate_questions_unvalidated(generated) == Handled(generated, <<>>)

\* generate_questions(): the generated structure, or None with an error shown
generate_questions(generated) ==
    IF validate_questions_structure(generated)
    THEN Handled(generated, <<>>)
    ELSE Handled(PyNone, <<Message("error", "generated structure invalid")>>)

\* a handler that falls back to the default set when nothing was generated
GenerateAppliedOrDefault(up, new) ==
    IF Truthy(new.structure)
    THEN Handled(new.structure,
                 up.messages \o new.messages
                 \o <<Message("success", "generated and applied")>>)
    ELSE Handled(DEFAULT_QUESTIONS_STRUCTURE,
                 up.messages \o new.messages
                 \o <<Message("warning", "previous set is used")>>)

\* if new_questions_structure: the session takes it
GenerateApplied(up, new) ==
    IF Truthy(new.structure)
    THEN Handled(new.structure,
                 up.messages \o new.messages
                 \o <<Message("success", "generated and applied")>>)
    ELSE Handled(up.structure,
                 up.messages \o new.messages
                 \o <<Message("warning", "previous set is used")>>)

\* the generation button: outcome is what run_crew_in_streamlit did, up the
\* checklist and the messages after the upload handler
GenerateHandler(button, outcome, up) ==
    IF button # "generate" THEN up
    ELSE IF outcome.k = "raised"
        THEN Handled(up.structure,
                     up.messages \o <<Message("error", "generation failed")>>)
    ELSE GenerateApplied(up, generate_questions(outcome.v))

\* the reset button, after the download text was written; when json.dumps
\* raised TypeError the run ended there
ResetHandler(button, gen, dumped) ==
    IF ~dumped.ok
        THEN Handled(gen.structure,
                     gen.messages \o <<Message("exception", "TypeError")>>)
    ELSE IF button = "reset"
        THEN Handled(DEFAULT_QUESTIONS_STRUCTURE,
                     gen.messages \o <<Message("info", "default set is used")>>)
    ELSE gen

(* inputs *)
FileOneRecord ==
    File(<<"[", "{", "\"", "aspect", "\"", ":", " ", "\"", "Security",
           "\"", ",", " ", "\"", "questions", "\"", ":", " ", "[", "\"",
           "it", "'", "s", "\"", ",", " ", "\"", "\\", "\"", "q", "\\",
           "\"", " ", "'", "\"", "]", "}", "]">>,
         TRUE, "checklist",
         OneRecord)

FileEscapes ==
    File(<<"[", "\n", " ", " ", "{", "\"", "aspect", "\"", ":", " ",
           "\"", "a", "\\", "\\", "\\", "n", "b", "\\", "\\", "\"", ",",
           "\n", " ", " ", " ", "\"", "questions", "\"", ":", " ", "[",
           "\"", "[", "{", "'", ":", ",", " ", "}", "]", "?", "\"", "]",
           "}", "\n", "]", "\n">>,
         TRUE, "checklist",
         PyList(<<AspectRecord(EscapesText, <<BracketsText>>)>>))

FileExtraKey ==
    File(<<"[", "{", "\"", "aspect", "\"", ":", " ", "\"", "A", "\"",
           ",", " ", "\"", "id", "\"", ":", " ", "-", "7", ",", " ",
           "\"", "questions", "\"", ":", " ", "[", "]", ",", " ", "\"",
           "note", "\"", ":", " ", "null", "}", "]">>,
         TRUE, "checklist",
         PyList(<<PyDict(<<<<KeyAspect, PyStr(<<"A">>)>>, <<PyStr(<<"id">>), PyInt(0 - 7)>>,
                       <<KeyQuestions, PyList(<<>>)>>, <<PyStr(<<"note">>), PyNone>>>>)>>))

FileEmptyList ==
    File(<<"[", "]">>,
         TRUE, "checklist",
         PyList(<<>>))

FilePythonLiteral ==
    File(<<"[", "{", "'", "aspect", "'", ":", " ", "'", "A", "'", ",",
           " ", "'", "questions", "'", ":", " ", "[", "'", "q", "'", "]",
           "}", "]">>,
         TRUE, "not json",
         NoChecklist)

FileTrailingComma ==
    File(<<"[", "{", "\"", "aspect", "\"", ":", " ", "\"", "A", "\"",
           ",", " ", "\"", "questions", "\"", ":", " ", "[", "\"", "q",
           "\"", ",", "]", "}", "]">>,
         TRUE, "not json",
         NoChecklist)

FileTruncated ==
    File(<<"[", "{", "\"", "aspect", "\"", ":", " ", "\"", "A", "\"",
           ",", " ", "\"", "questions", "\"", ":", " ", "[", "\"", "q",
           "\"">>,
         TRUE, "not json",
         NoChecklist)

FileObject ==
    File(<<"{", "\"", "aspect", "\"", ":", " ", "\"", "A", "\"", ",",
           " ", "\"", "questions", "\"", ":", " ", "[", "\"", "q", "\"",
           "]", "}">>,
         TRUE, "not a checklist",
         NoChecklist)

FileListOfStrings ==
    File(<<"[", "\"", "A", "\"", ",", " ", "\"", "q", "\"", "]">>,
         TRUE, "not a checklist",
         NoChecklist)

FileNoQuestions ==
    File(<<"[", "{", "\"", "aspect", "\"", ":", " ", "\"", "A", "\"",
           "}", "]">>,
         TRUE, "not a checklist",
         NoChecklist)

FileAspectNumber ==
    File(<<"[", "{", "\"", "aspect", "\"", ":", " ", "1", ",", " ", "\"",
           "questions", "\"", ":", " ", "[", "\"", "q", "\"", "]", "}",
           "]">>,
         TRUE, "not a checklist",
         NoChecklist)

FileQuestionsString ==
    File(<<"[", "{", "\"", "aspect", "\"", ":", " ", "\"", "A", "\"",
           ",", " ", "\"", "questions", "\"", ":", " ", "\"", "q", "\"",
           "}", "]">>,
         TRUE, "not a checklist",
         NoChecklist)

FileQuestionNull ==
    File(<<"[", "{", "\"", "aspect", "\"", ":", " ", "\"", "A", "\"",
           ",", " ", "\"", "questions", "\"", ":", " ", "[", "\"", "q",
           "\"", ",", " ", "null", "]", "}", "]">>,
         TRUE, "not a checklist",
         NoChecklist)

FileNotUtf8 ==
    File(<<"[", "{", "\"", "aspect", "\"", ":", " ", "\"", "A", "\"",
           ",", " ", "\"", "questions", "\"", ":", " ", "[", "\"", "q",
           "\"", "]", "}", "]">>,
         FALSE, "not utf-8",
         NoChecklist)

UploadFiles ==
    {FileOneRecord,
     FileEscapes,
     FileExtraKey,
     FileEmptyList,
     FilePythonLiteral,
     FileTrailingComma,
     FileTruncated,
     FileObject,
     FileListOfStrings,
     FileNoQuestions,
     FileAspectNumber,
     FileQuestionsString,
     FileQuestionNull,
     FileNotUtf8}

\* what run_crew_in_streamlit can do: raise, or return a value
GeneratedStructures ==
    {TwoRecords,
     PyList(<<>>),
     PyList(<<PyDict(<<<<KeyAspect, PyStr(<<"A">>)>>>>)>>),
     PyStr(NO_RESULT_TEXT)}

GenerationOutcomes ==
    {[k |-> "raised", v |-> PyNone]}
    \cup {[k |-> "returned", v |-> x] : x \in GeneratedStructures}

NoOutcome == [k |-> "none", v |-> PyNone]

\* the first run of the script in a session: nothing uploaded, nothing pressed
InitSession ==
    /\ ParseIdle
    /\ log = <<>>
    /\ QAIdle
    /\ FormatIdle
    /\ RunIdle
    /\ DocIdle
    /\ current_questions_structure = DEFAULT_QUESTIONS_STRUCTURE
    /\ uploaded_questions_file = NoFile
    /\ current_questions_json = json_dumps(DEFAULT_QUESTIONS_STRUCTURE).text
    /\ exported = DEFAULT_QUESTIONS_STRUCTURE
    /\ downloaded = NoFile
    /\ kept = TRUE
    /\ event = "open"
    /\ sidebar = <<>>

\* the state a run of the script ends in: gen is the checklist and the
\* messages after the upload and generation handlers
RunEnds(file, gen, dumped, last) ==
    /\ uploaded_questions_file' = file
    /\ exported' = gen.structure
    /\ current_questions_json' = dumped.text
    /\ current_questions_structure' = last.structure
    /\ kept' = PyEq(last.structure, current_questions_structure)
    /\ sidebar' = last.messages
    /\ UNCHANGED <<parseVars, qaVars, fmtVars, runVars, docVars>>

RunDumps(file, button, gen, dumped) ==
    RunEnds(file, gen, dumped, ResetHandler(button, gen, dumped))

RunGenerates(file, button, gen) ==
    RunDumps(file, button, gen, json_dumps(gen.structure))

\* one run of the script with file in the uploader and at most one button
\* pressed ("generate", "reset" or "none"): upload handler, generation
\* handler, json.dumps for the download button, reset handler
ScriptRun(file, button, outcome) ==
    RunGenerates(file, button,
        GenerateHandler(button, outcome,
            UploadHandler(current_questions_structure, file)))

\* the user puts a file into the uploader: one from the pool, or the one
\* saved with the download button
UploadFile ==
    \E file \in (UploadFiles \cup {downloaded}) \ {NoFile} :
        /\ event' = "upload"
        /\ ScriptRun(file, "none", NoOutcome)
        /\ UNCHANGED downloaded

\* the user removes the file from the uploader
RemoveFile ==
    /\ uploaded_questions_file # NoFile
    /\ event' = "remove"
    /\ ScriptRun(NoFile, "none", NoOutcome)
    /\ UNCHANGED downloaded

PressGenerate ==
    \E outcome \in GenerationOutcomes :
        /\ event' = "generate"
        /\ ScriptRun(uploaded_questions_file, "generate", outcome)
        /\ UNCHANGED downloaded

\* the download button hands over the text of the last run
PressDownload ==
    /\ current_questions_json # <<>>
    /\ downloaded' = File(current_questions_json, TRUE, "export", exported)
    /\ event' = "download"
    /\ ScriptRun(uploaded_questions_file, "none", NoOutcome)

PressReset ==
    /\ event' = "reset"
    /\ ScriptRun(uploaded_questions_file, "reset", NoOutcome)
    /\ UNCHANGED downloaded

\* the rerun in which the analysis button is pressed, a document being in the
\* document uploader: the sidebar handlers run first, the button is shown
\* unless the checklist is empty or total_q == 0, and the analysis reads the
\* checklist the session holds then (its steps are those of SpecDoc)
PressStartAnalysis ==
    /\ event' = "analysis"
    /\ ScriptRun(uploaded_questions_file, "none", NoOutcome)
    /\ current_questions_structure'.v # <<>>
    /\ TotalQ(current_questions_structure', 1) > 0
    /\ UNCHANGED downloaded

NextSession ==
    \/ UploadFile
    \/ RemoveFile
    \/ PressGenerate
    \/ PressDownload
    \/ PressReset
    \/ PressStartAnalysis

SpecSession == InitSession /\ [][NextSession]_vars

----------------------------------------------------------------------------
(* Claims about the checklist upload and download *)

SidebarShows(level, what) ==
    \E j \in 1..Len(sidebar) : sidebar[j] = Message(level, what)

\* the upload handler was the only handler of the last run
UploadHandled ==
    /\ event \in {"upload", "download"}
    /\ uploaded_questions_file # NoFile

\* the file was written as JSON from a checklist
WrittenFromChecklist == uploaded_questions_file.kind \in {"checklist", "export"}

Accepts(loaded) == loaded.ok /\ validate_questions_structure(loaded.v)

\* the file decodes as JSON and the validation accepts what it decodes to
DecodesAndValidates ==
    /\ uploaded_questions_file.decodable
    /\ Accepts(json_loads(uploaded_questions_file.text))

\* C19: an uploaded questions file replaces the current checklist exactly
\* when it decodes as JSON and validate_questions_structure accepts it (a
\* list of objects with a string 'aspect' and a list of string 'questions');
\* the checklist is then the one the file was written from.  After any other
\* upload the current checklist is the one of before the run, and an error
\* is shown.
C19_UploadReplacesIffValid ==
    UploadHandled =>
        /\ WrittenFromChecklist <=> DecodesAndValidates
        /\ IF DecodesAndValidates
           THEN /\ PyEq(current_questions_structure, uploaded_questions_file.source)
                /\ SidebarShows("success", "questions file applied")
           ELSE /\ kept
                /\ \E j \in 1..Len(sidebar) : sidebar[j][1] = "error"

\* a file of the wrong structure was uploaded while an uploaded checklist
\* was current, and that checklist is still the current one
C19_Witness ==
    /\ event = "upload"
    /\ uploaded_questions_file = FileQuestionsString
    /\ PyEq(current_questions_structure, OneRecord)
    /\ kept
    /\ SidebarShows("error", "wrong JSON structure")

\* the text decodes to a checklist the validation accepts, equal to source
RoundTrips(loaded, source) == Accepts(loaded) /\ PyEq(loaded.v, source)

\* C20: for every checklist the session holds, the text offered by the
\* download button decodes as JSON to a checklist that
\* validate_questions_structure accepts and that equals the exported one
\* (same aspects, same questions, same order); when the saved file is
\* uploaded, it is applied and the current checklist equals the exported one.
C20_ExportImportRoundTrip ==
    /\ current_questions_json # <<>>
    /\ RoundTrips(json_loads(current_questions_json), exported)
    /\ (event = "upload" /\ uploaded_questions_file.kind = "export") =>
          /\ PyEq(current_questions_structure, uploaded_questions_file.source)
          /\ validate_questions_structure(current_questions_structure)
          /\ SidebarShows("success", "questions file applied")

\* a generated checklist with quotes, a backslash and a line break in its
\* texts was saved, the session went back to another checklist, and the
\* upload of the saved file brought the generated checklist back
C20_Witness ==
    /\ event = "upload"
    /\ uploaded_questions_file.kind = "export"
    /\ PyEq(uploaded_questions_file.source, TwoRecords)
    /\ PyEq(current_questions_structure, TwoRecords)
    /\ ~kept

----------------------------------------------------------------------------
(* Properties of the execution of the fan-out and merge crew *)

ExpertOutputs == [j \in 1..(Len(crew.tasks) - 1) |-> ExpertOutput(crew.tasks[j])]

----------------------------------------------------------------------------
(* Claims about the checklist of the session across the runs of the script *)

\* the last run was started by something other than a checklist upload, a
\* generation or a reset: a download, the start of an analysis, or the
\* removal of the file from the uploader
OtherRerun(e) == e \in {"download", "analysis", "remove"}

GenerationApplied ==
    /\ event = "generate"
    /\ SidebarShows("success", "generated and applied")

\* C22: after a generation the interface reported as generated and applied,
\* the generated checklist is still the current one after the next run of
\* the script that is not an upload, a generation or a reset, and is the one
\* an analysis started in that run uses, whether or not a checklist file is
\* still in the uploader.
C22_GeneratedStaysCurrent ==
    [][(GenerationApplied /\ OtherRerun(event')) => kept']_vars

ResetApplied ==
    /\ event = "reset"
    /\ SidebarShows("info", "default set is used")
    /\ PyEq(current_questions_structure, DEFAULT_QUESTIONS_STRUCTURE)

\* C23: after the reset button the current checklist is the default one, and
\* it is still the default one after the next run of the script that is not
\* an upload or a generation, whether or not a checklist file is still in
\* the uploader.
C23_ResetStaysDefault ==
    [][/\ (event' = "reset") =>
            PyEq(current_questions_structure', DEFAULT_QUESTIONS_STRUCTURE)
       /\ (ResetApplied /\ OtherRerun(event')) => kept']_vars

\* the upload handler of the last run refused the file in the uploader
UploadRejected ==
    /\ uploaded_questions_file # NoFile
    /\ \/ SidebarShows("error", "wrong JSON structure")
       \/ SidebarShows("error", "JSON decoding error")
       \/ SidebarShows("error", "questions file not read")

\* C24: after a run in which the uploaded questions file was rejected (wrong
\* structure, undecodable JSON, unreadable file) by the upload handler alone,
\* the current checklist is the default one, whatever it was before.
C24_RejectedUploadUsesDefault ==
    (UploadHandled /\ UploadRejected) =>
        PyEq(current_questions_structure, DEFAULT_QUESTIONS_STRUCTURE)

\* the generation handler of the last run reported a failure: an exception,
\* or nothing to apply (None after a failed validation, or an empty list)
GenerationFailed ==
    /\ event = "generate"
    /\ \/ SidebarShows("error", "generation failed")
       \/ SidebarShows("warning", "previous set is used")

\* the current checklist is the one the upload handler of the last run left:
\* the checklist of the file in the uploader when the handler applied it,
\* the checklist of before the run otherwise
LeftByUploadHandler ==
    IF uploaded_questions_file # NoFile /\ DecodesAndValidates
    THEN PyEq(current_questions_structure, uploaded_questions_file.source)
    ELSE kept

\* C25: a failed generation leaves the checklist as the generation handler
\* found it: when generate_questions raised, returned None or returned an
\* empty list, the current checklist after the handler is the one that was
\* current before it; a run of the generation handler ends in a reported
\* failure or in a non-empty generated checklist being applied.
C25_FailedGenerationKeepsChecklist ==
    /\ GenerationFailed => LeftByUploadHandler
    /\ (event = "generate") =>
          /\ GenerationFailed # GenerationApplied
          /\ GenerationApplied => Truthy(current_questions_structure)

\* a generation that raised or returned an empty list, after a generated
\* checklist had been applied with no file in the uploader: the generated
\* checklist is still the current one
C25_Witness ==
    /\ GenerationFailed
    /\ uploaded_questions_file = NoFile
    /\ PyEq(current_questions_structure, TwoRecords)
    /\ kept
    /\ ~SidebarShows("error", "generated structure invalid")

\* what line 278 and get_answers_for_structure read of a record
ReadableRecord(item) ==
    /\ item.t = "dict"
    /\ HasKey(item, KeyAspect)
    /\ HasKey(item, KeyQuestions)
    /\ GetItem(item, KeyQuestions).t = "list"
    /\ \A k \in 1..Len(GetItem(item, KeyQuestions).v) :
          GetItem(item, KeyQuestions).v[k].t = "str"

\* C26: after every run of the script (a checklist upload accepted or
\* rejected, a generation applied or failed, a reset, a download, the start
\* of an analysis) the checklist of the session satisfies
\* validate_questions_structure, and so does the one the download text was
\* written from; every record the question count and the analysis read has
\* an 'aspect' and a list of string 'questions'.
C26_SessionChecklistValid ==
    /\ validate_questions_structure(current_questions_structure)
    /\ validate_questions_structure(exported)
    /\ \A j \in 1..Len(current_questions_structure.v) :
          ReadableRecord(current_questions_structure.v[j])

\* an analysis was started with a rejected file in the uploader, after a
\* generated checklist had been applied: that checklist is the one analysed
C26_Witness ==
    /\ event = "analysis"
    /\ UploadRejected
    /\ PyEq(current_questions_structure, TwoRecords)
    /\ total_q > 0

----------------------------------------------------------------------------
(* The stages that receive a checklist or a result sequence, side by side:   *)
(* get_aspects and req_details_crew on a result text, and the analysis       *)
(* handler, which passes the session's checklist to                          *)
(* get_answers_for_structure and its result to format_results_to_markdown.   *)

StageChecklists == {OneRecord, TwoRecords}

\* the checklists of the session: one with two questions, and the empty one
StageSessionChecklists == {OneRecord, PyList(<<>>)}

StageDocuments ==
    {d \in Documents : d.ext = ".md" /\ d.decodable /\ d.convertible
                       /\ d.content = "headers"}

InitStages ==
    /\ \E c \in StageChecklists :
          /\ original = c
          /\ raw = Repr(c)
    /\ pc = "start"
    /\ aspects = PyNone
    /\ exc = "none"
    /\ log = <<>>
    /\ evaluated = {}
    /\ crew = NoCrew
    /\ QAIdle
    /\ FormatIdle
    /\ RunIdle
    /\ current_questions_structure \in StageSessionChecklists
    /\ SidebarIdle
    /\ document \in StageDocuments
    /\ dpc = "uploaded"
    /\ file_bytes = "none"
    /\ docs = "none"
    /\ backend_calls = <<>>
    /\ ui = <<>>

NextStages == NextParse \/ NextDoc

SpecStages == InitStages /\ [][NextStages]_vars

\* C27: no stage changes the checklist or the result sequence it is given.
\* Across req_details_crew the aspects it was called with are unchanged;
\* from the call of get_answers_for_structure to the end of the handler the
\* checklist argument and the session's checklist it was taken from are
\* unchanged, whether the questions were answered or met an error; across
\* format_results_to_markdown the results it was called with are unchanged.
C27_StagesLeaveInputs ==
    [][/\ (pc = "parsed" /\ pc' # pc) => PyEq(aspects', aspects)
       /\ (dpc = "answering") =>
             /\ questions_data' = questions_data
             /\ PyEq(current_questions_structure', current_questions_structure)
       /\ (dpc = "answering" /\ dpc' = "end") =>
             /\ results_by_aspect' = results_by_aspect
             /\ fpc' = "formatted" => results_data' = results_by_aspect]_vars

\* the three stages returned, one question having met an error: the crew
\* holds a task per aspect and the merge task, the checklist argument is
\* still the session's checklist and the results given to the formatter are
\* those returned by get_answers_for_structure
C27_Witness ==
    /\ pc = "crew_built"
    /\ Len(crew.tasks) = Len(aspects.v) + 1
    /\ Len(aspects.v) > 0
    /\ dpc = "end"
    /\ fpc = "formatted"
    /\ \E j \in 1..Len(calls) : calls[j].kind = "raise"
    /\ questions_data = AsQuestionsData(current_questions_structure)
    /\ Len(questions_data) > 0
    /\ results_data = results_by_aspect
    /\ Len(results_data) = Len(questions_data)

====
